---- MODULE Spec2Model ----
(***************************************************************************)
(* Connect-four agents of arnegro/4wins: the board model (game_utils.py),  *)
(* the MCTS search tree (searchtree.py), the MCTS engine (mcts.py) and the *)
(* selection/update policies (mcts_logics).                                *)
(*                                                                         *)
(* Objects with identity (numpy arrays, SearchTree nodes) live in a heap:  *)
(* `arrays` and `nodes` are sequences, an object's id is its index, and    *)
(* None is 0.  A board value is a function row -> column -> piece with     *)
(* row 0 the bottom row, as in the source.                                 *)
(***************************************************************************)
EXTENDS Integers, Sequences, FiniteSets, TLC

VARIABLES
    arrays,   \* heap of numpy arrays: id -> board value
    nodes,    \* heap of SearchTree objects: id -> fields
    pc,       \* position of the harness / driver
    find,     \* SpecFind: inputs and result of _find_connecting_action_sequence
    reloc,    \* SpecReloc: the tree handle and the last _move_root call
    mrg,      \* SpecMerge: the two input trees and the merged tree
    st,       \* SpecStats: stats blobs folded by update, and their merge
    game      \* Spec: the driver of a game (agent_vs_agent) and the agent's tree

vars == <<arrays, nodes, pc, find, reloc, mrg, st, game>>

----------------------------------------------------------------------------
(* Bounds of the model: the board is Rows x Cols; SpecFind builds its      *)
(* boards by up to MaxRootMoves and MaxGoalMoves moves; a tree grows by up *)
(* to MaxIters iterations and is relocated up to MaxRelocs times; SpecStats*)
(* folds up to MaxSeq winners per blob; a game runs with up to MaxProcs    *)
(* processes and `Iterations` iterations per call; SpecMove starts after   *)
(* StartMoves or more moves; SpecExpand calls expand_child up to           *)
(* MaxExpands times, SpecApply plays up to MaxApply pieces.                *)
(* The minimax agent is run on boards of MinimaxRows x MinimaxCols cells   *)
(* holding up to MaxPieces pieces, without a time limit at the depths      *)
(* MinDepth .. MaxDepth and with a time limit from the depths              *)
(* 1 .. MaxStartDepth on, for up to MaxPasses completed passes.            *)

Rows == 4
Cols == 2
MaxRootMoves == 1
MaxGoalMoves == 2
MaxIters == 3
MaxRelocs == 1
MaxSeq == 2
MaxProcs == 2
Iterations == 4
StartMoves == 4
MaxExpands == 4
MaxApply == 5
MinimaxRows == 2
MinimaxCols == 5
MaxPieces == 4
MinDepth == 3
MaxDepth == 3
MaxStartDepth == 2
MaxPasses == 2

----------------------------------------------------------------------------
(* game_utils.py *)

NO_PLAYER == 0
PLAYER1 == 1
PLAYER2 == 2

\* connected_four: x = 4
CONNECT_N == 4

None == 0

\* searchtree.py: Stats = Dict, {} until the first update
EmptyStats == <<>>

BoardPiece == {NO_PLAYER, PLAYER1, PLAYER2}
Players == {PLAYER1, PLAYER2}

\* searchtree.py: _OTHER_PLAYER = {PLAYER1: PLAYER2, PLAYER2: PLAYER1}
_OTHER_PLAYER(player) == IF player = PLAYER1 THEN PLAYER2 ELSE PLAYER1

RowIdx == 0 .. (Rows - 1)
ColIdx == 0 .. (Cols - 1)

\* initialize_game_state: a board filled with NO_PLAYER
initialize_game_state == [i \in RowIdx |-> [j \in ColIdx |-> NO_PLAYER]]

\* board.shape: <<rows, cols>>
shape(board) == <<Cardinality(DOMAIN board), Cardinality(DOMAIN board[0])>>

\* _get_legal_moves: the columns whose top cell is empty, in ascending order
_get_legal_moves(board) ==
    LET rows == shape(board)[1]
        cols == shape(board)[2]
    IN  SelectSeq([k \in 1 .. cols |-> k - 1],
                  LAMBDA col : board[rows - 1][col] = NO_PLAYER)

Range(s) == {s[k] : k \in 1 .. Len(s)}

\* np.argmin(np.where(col == NO_PLAYER, 0, 1)): the first empty row of the
\* column, and 0 when the column has no empty row
fill_level(board, action) ==
    LET empty == {i \in DOMAIN board : board[i][action] = NO_PLAYER}
    IN  IF empty = {} THEN 0
        ELSE CHOOSE i \in empty : \A k \in empty : i <= k

\* apply_player_action raises ValueError for a column that is not legal
apply_player_action_raises(board, action) ==
    action \notin Range(_get_legal_moves(board))

\* apply_player_action: a copy of the board with the piece set
apply_player_action(board, action, player) ==
    [board EXCEPT ![fill_level(board, action)][action] = player]

\* connected_four (numba variant): four adjacent pieces of `player`
connected_four(board, player) ==
    LET x == CONNECT_N
        rows == shape(board)[1]
        cols == shape(board)[2]
        b(i, j) == board[i][j] = player
    IN  \/ \E i \in 0 .. (rows - 1), j \in 0 .. (cols - x) :
              \A k \in 0 .. (x - 1) : b(i, j + k)
        \/ \E i \in 0 .. (rows - x), j \in 0 .. (cols - 1) :
              \A k \in 0 .. (x - 1) : b(i + k, j)
        \/ \E i \in 0 .. (rows - x), j \in 0 .. (cols - x) :
              \/ \A k \in 0 .. (x - 1) : b(i + k, j + k)
              \/ \A k \in 0 .. (x - 1) : b(i + (x - 1) - k, j + k)

\* check_end_state: GameState of the board for the player who moved last
check_end_state(board, player) ==
    IF connected_four(board, player) THEN "IS_WIN"
    ELSE IF Len(_get_legal_moves(board)) = 0 THEN "IS_DRAW"
    ELSE "STILL_PLAYING"

----------------------------------------------------------------------------
(* mcts.py: root relocation helpers *)

\* mutant: the two boards taken in the wrong order
_is_possible_predecessor_swapped(board0, board1) ==
    /\ \A i \in RowIdx, j \in ColIdx :
           board0[i][j] = NO_PLAYER => board0[i][j] = board1[i][j]
    /\ \A i \in RowIdx, j \in ColIdx :
           board1[i][j] # NO_PLAYER => board1[i][j] = board0[i][j]

\* _is_possible_predecessor(board0, board1)
_is_possible_predecessor(board0, board1) ==
    LET board0_empty_match ==
            \A i \in RowIdx, j \in ColIdx :
                board1[i][j] = NO_PLAYER => board1[i][j] = board0[i][j]
        board1_non_empty_match ==
            \A i \in RowIdx, j \in ColIdx :
                board0[i][j] # NO_PLAYER => board0[i][j] = board1[i][j]
    IN  board0_empty_match /\ board1_non_empty_match

RECURSIVE _find_connecting_action_sequence(_, _, _)
RECURSIVE _find_loop(_, _, _, _, _)

\* mutant: the move put behind the moves of the recursive call
RECURSIVE _find_loop_append(_, _, _, _, _)
_find_loop_append(root_board, board, player, moves, k) ==
    IF k > Len(moves) THEN [found |-> FALSE, moves |-> <<>>]
    ELSE LET move  == moves[k]
             child == apply_player_action(root_board, move, player)
             r     == _find_connecting_action_sequence(
                          child, board, _OTHER_PLAYER(player))
         IN  IF r.found
             THEN [found |-> TRUE, moves |-> r.moves \o <<move>>]
             ELSE _find_loop_append(root_board, board, player, moves, k + 1)

\* the loop `for move in _get_legal_moves(root_board)` from position k on
_find_loop(root_board, board, player, moves, k) ==
    IF k > Len(moves) THEN [found |-> FALSE, moves |-> <<>>]
    ELSE LET move  == moves[k]
             child == apply_player_action(root_board, move, player)
             r     == _find_connecting_action_sequence(
                          child, board, _OTHER_PLAYER(player))
         IN  IF r.found
             THEN [found |-> TRUE, moves |-> <<move>> \o r.moves]
             ELSE _find_loop(root_board, board, player, moves, k + 1)

\* mutant: the search that lets the other player move first
_find_connecting_action_sequence_other_first(root_board, board, player) ==
    IF board = root_board THEN [found |-> TRUE, moves |-> <<>>]
    ELSE IF ~_is_possible_predecessor(root_board, board)
    THEN [found |-> FALSE, moves |-> <<>>]
    ELSE _find_loop(root_board, board, _OTHER_PLAYER(player),
                    _get_legal_moves(root_board), 1)

\* _find_connecting_action_sequence(root_board, board, player)
_find_connecting_action_sequence(root_board, board, player) ==
    IF board = root_board THEN [found |-> TRUE, moves |-> <<>>]
    ELSE IF ~_is_possible_predecessor(root_board, board)
    THEN [found |-> FALSE, moves |-> <<>>]
    ELSE _find_loop(root_board, board, player,
                    _get_legal_moves(root_board), 1)

----------------------------------------------------------------------------
(* searchtree.py: SearchTree.  A heap H is [arrays, nodes]; an operation    *)
(* that allocates or writes returns the new heap with its result.          *)

\* the fields SearchTree.__init__ sets; is_end_state is the attribute
\* _selection_helper sets with setattr ("absent" until then)
NewNode(root_board, player) ==
    [stats |-> EmptyStats, children |-> <<>>, parent |-> None,
     player |-> player, root_board |-> root_board, is_end_state |-> "absent"]

\* SearchTree(root_board, player): root_board is the id of the array given
SearchTree(H, root_board, player) ==
    [H   |-> [H EXCEPT !.nodes = Append(@, NewNode(root_board, player))],
     res |-> Len(H.nodes) + 1]

\* np.ndarray.copy(): a new array with the same contents
array_copy(H, a) ==
    [H   |-> [H EXCEPT !.arrays = Append(@, H.arrays[a])],
     res |-> Len(H.arrays) + 1]

\* mutant: apply_player_action that writes into the board it was given
apply_player_action_in_place(H, board, action, player) ==
    IF apply_player_action_raises(H.arrays[board], action)
    THEN [H |-> H, res |-> None, raised |-> TRUE]
    ELSE [H |-> [H EXCEPT !.arrays[board] =
                    apply_player_action(@, action, player)],
          res |-> board, raised |-> FALSE]

\* apply_player_action on the array object `board`: board = board.copy(),
\* board[fill_level, action] = player, return board
apply_player_action_copy(H, board, action, player) ==
    IF apply_player_action_raises(H.arrays[board], action)
    THEN [H |-> H, res |-> None, raised |-> TRUE]
    ELSE LET c == array_copy(H, board)
         IN  [H |-> [c.H EXCEPT !.arrays[c.res] =
                        apply_player_action(@, action, player)],
              res |-> c.res, raised |-> FALSE]

\* the keys of a children dict, in insertion order
child_keys(children) == [k \in 1 .. Len(children) |-> children[k].move]

\* action in children.keys()
has_child(children, action) ==
    \E k \in 1 .. Len(children) : children[k].move = action

\* children[action]
get_child(children, action) ==
    children[CHOOSE k \in 1 .. Len(children) : children[k].move = action].node

\* children[action] = node: a new key is appended, an old key keeps its place
set_child(children, action, node) ==
    IF has_child(children, action)
    THEN [k \in 1 .. Len(children) |->
             IF children[k].move = action
             THEN [move |-> action, node |-> node] ELSE children[k]]
    ELSE Append(children, [move |-> action, node |-> node])

\* mutant: expand_child that always creates a new node
expand_child_always_new(H, self, action) ==
    LET new == Len(H.nodes) + 1
        node == [NewNode(H.nodes[self].root_board,
                         _OTHER_PLAYER(H.nodes[self].player))
                   EXCEPT !.parent = self]
    IN  [H   |-> [H EXCEPT !.nodes =
                     Append([@ EXCEPT ![self].children =
                                set_child(@, action, new)], node)],
         res |-> new]

\* mutant: expand_child whose new child keeps the player of its parent
expand_child_same_player(H, self, action) ==
    IF has_child(H.nodes[self].children, action)
    THEN [H |-> H, res |-> get_child(H.nodes[self].children, action)]
    ELSE LET new == Len(H.nodes) + 1
             node == [NewNode(H.nodes[self].root_board, H.nodes[self].player)
                        EXCEPT !.parent = self]
         IN  [H   |-> [H EXCEPT !.nodes =
                          Append([@ EXCEPT ![self].children =
                                     set_child(@, action, new)], node)],
              res |-> new]

\* SearchTree.expand_child(action)
expand_child(H, self, action) ==
    IF has_child(H.nodes[self].children, action)
    THEN [H |-> H, res |-> get_child(H.nodes[self].children, action)]
    ELSE LET new == Len(H.nodes) + 1
             node == [NewNode(H.nodes[self].root_board,
                              _OTHER_PLAYER(H.nodes[self].player))
                        EXCEPT !.parent = self]
         IN  [H   |-> [H EXCEPT !.nodes =
                          Append([@ EXCEPT ![self].children =
                                     set_child(@, action, new)], node)],
              res |-> new]

\* SearchTree.set_root_board(board): self.root_board[:, :] = board
set_root_board(H, self, board) ==
    [H EXCEPT !.arrays[H.nodes[self].root_board] = board]

\* mutant: make_root that replaces the root board and keeps the parent link
make_root_keep_parent(H, self, board) == set_root_board(H, self, board)

\* SearchTree.make_root(board)
make_root(H, self, board) ==
    [set_root_board(H, self, board) EXCEPT !.nodes[self].parent = None]

----------------------------------------------------------------------------
(* mcts_logics: the two policies, UCB1 and Beta *)

Logics == {"UCB1", "Beta"}

\* a variant of update that does not count a drawn playout as a sample
update_draw_not_sampled(logic, stats, winner) ==
    IF logic = "UCB1"
    THEN LET s0 == IF stats = EmptyStats
                   THEN [w |-> 0, s |-> 0, draw |-> 0] ELSE stats
         IN  [s0 EXCEPT
                !.draw = IF winner = NO_PLAYER THEN @ + 1 ELSE @,
                !.w    = IF winner = PLAYER1 THEN @ + 1 ELSE @,
                !.s    = IF winner = NO_PLAYER THEN @ ELSE @ + 1]
    ELSE LET s0 == IF stats = EmptyStats
                   THEN [a |-> 1, b |-> 1, draw |-> 0] ELSE stats
         IN  IF winner = PLAYER1 THEN [s0 EXCEPT !.a = @ + 1]
             ELSE IF winner = PLAYER2 THEN [s0 EXCEPT !.b = @ + 1]
             ELSE [s0 EXCEPT !.draw = @ + 1]

\* UCB1.update / Beta.update
update(logic, stats, winner) ==
    IF logic = "UCB1"
    THEN LET s0 == IF stats = EmptyStats
                   THEN [w |-> 0, s |-> 0, draw |-> 0] ELSE stats
         IN  [s0 EXCEPT
                !.draw = IF winner = NO_PLAYER THEN @ + 1 ELSE @,
                !.w    = IF winner = PLAYER1 THEN @ + 1 ELSE @,
                !.s    = @ + 1]
    ELSE LET s0 == IF stats = EmptyStats
                   THEN [a |-> 1, b |-> 1, draw |-> 0] ELSE stats
         IN  IF winner = PLAYER1 THEN [s0 EXCEPT !.a = @ + 1]
             ELSE IF winner = PLAYER2 THEN [s0 EXCEPT !.b = @ + 1]
             ELSE [s0 EXCEPT !.draw = @ + 1]

\* UCB1.merge_stats / Beta.merge_stats
merge_stats(logic, stats1, stats2) ==
    IF logic = "UCB1"
    THEN LET s1 == IF stats1 = EmptyStats
                   THEN [w |-> 0, s |-> 0, draw |-> 0] ELSE stats1
             s2 == IF stats2 = EmptyStats
                   THEN [w |-> 0, s |-> 0, draw |-> 0] ELSE stats2
         IN  [s1 EXCEPT !.w = @ + s2.w, !.s = @ + s2.s]
    ELSE LET s1 == IF stats1 = EmptyStats
                   THEN [a |-> 1, b |-> 1, draw |-> 0] ELSE stats1
             s2 == IF stats2 = EmptyStats
                   THEN [a |-> 1, b |-> 1, draw |-> 0] ELSE stats2
         IN  [s1 EXCEPT !.a = @ + s2.a - 1, !.b = @ + s2.b - 1]

\* UCB1.select / Beta.select read the counters of both blobs: an empty blob
\* raises (KeyError for UCB1, TypeError for Beta)
select_raises(stats, parent_stats) ==
    stats = EmptyStats \/ parent_stats = EmptyStats

----------------------------------------------------------------------------
(* searchtree.py: SearchTree.merge_trees *)

\* set(search_tree_1.children) & set(search_tree_2.children), iterated in
\* ascending order
common_children(children1, children2) ==
    SelectSeq([k \in 1 .. Cols |-> k - 1],
              LAMBDA move : has_child(children1, move)
                            /\ has_child(children2, move))

\* mutant: the first loop of merge_trees without the copy of the stats
RECURSIVE merge_exclusive_no_stats(_, _, _, _, _)
merge_exclusive_no_stats(H, merged_tree, items, common, k) ==
    IF k > Len(items) THEN H
    ELSE IF items[k].move \in Range(common)
    THEN merge_exclusive_no_stats(H, merged_tree, items, common, k + 1)
    ELSE merge_exclusive_no_stats(
             expand_child(H, merged_tree, items[k].move).H,
             merged_tree, items, common, k + 1)

\* the first loop of merge_trees, over the children of both trees, from
\* position k on: a child of one tree only is expanded in the merged tree
\* and gets a copy of the child's stats
RECURSIVE merge_exclusive(_, _, _, _, _)
merge_exclusive(H, merged_tree, items, common, k) ==
    IF k > Len(items) THEN H
    ELSE IF items[k].move \in Range(common)
    THEN merge_exclusive(H, merged_tree, items, common, k + 1)
    ELSE LET e == expand_child(H, merged_tree, items[k].move)
         IN  merge_exclusive(
                 [e.H EXCEPT !.nodes[e.res].stats = H.nodes[items[k].node].stats],
                 merged_tree, items, common, k + 1)

RECURSIVE merge_trees(_, _, _, _)
RECURSIVE merge_common(_, _, _, _, _, _, _)

\* the second loop of merge_trees, over the common children, from position
\* k on: the two children are merged and the result is linked in
merge_common(H, merged_tree, search_tree_1, search_tree_2, common, k, logic) ==
    IF k > Len(common) THEN [H |-> H, raised |-> FALSE]
    ELSE LET move == common[k]
             m == merge_trees(
                      H, get_child(H.nodes[search_tree_1].children, move),
                      get_child(H.nodes[search_tree_2].children, move), logic)
         IN  IF m.raised THEN [H |-> m.H, raised |-> TRUE]
             ELSE merge_common(
                      [m.H EXCEPT
                         !.nodes[m.res].parent = merged_tree,
                         !.nodes[merged_tree].children =
                             set_child(@, move, m.res)],
                      merged_tree, search_tree_1, search_tree_2, common,
                      k + 1, logic)

\* SearchTree.merge_trees(search_tree_1, search_tree_2, merge_stats); raised
\* is the ValueError of mismatching boards or players
merge_trees(H, search_tree_1, search_tree_2, logic) ==
    LET n1 == H.nodes[search_tree_1]
        n2 == H.nodes[search_tree_2]
    IN  IF H.arrays[n1.root_board] # H.arrays[n2.root_board]
           \/ n1.player # n2.player
        THEN [H |-> H, res |-> None, raised |-> TRUE]
        ELSE LET c == array_copy(H, n1.root_board)
                 t == SearchTree(c.H, c.res, n1.player)
                 merged_tree == t.res
                 H1 == [t.H EXCEPT !.nodes[merged_tree].stats =
                                      merge_stats(logic, n1.stats, n2.stats)]
                 common == common_children(n1.children, n2.children)
                 H2 == merge_exclusive(H1, merged_tree,
                                       n1.children \o n2.children, common, 1)
                 r == merge_common(H2, merged_tree, search_tree_1,
                                   search_tree_2, common, 1, logic)
             IN  [H |-> r.H, res |-> IF r.raised THEN None ELSE merged_tree,
                  raised |-> r.raised]

----------------------------------------------------------------------------
(* mcts.py: the engine *)

\* the loop `for move in moves: search_tree = search_tree.expand_child(move)`
RECURSIVE expand_path(_, _, _)
expand_path(H, search_tree, moves) ==
    IF moves = <<>> THEN [H |-> H, res |-> search_tree]
    ELSE LET e == expand_child(H, search_tree, Head(moves))
         IN  expand_path(e.H, e.res, Tail(moves))

\* mutant: _move_root that re-roots the tree where it stands when no
\* connecting sequence is found
_move_root_no_raise(H, search_tree, board) ==
    LET f == _find_connecting_action_sequence(
                 H.arrays[H.nodes[search_tree].root_board], board,
                 H.nodes[search_tree].player)
        e == expand_path(H, search_tree, f.moves)
    IN  [H |-> make_root(e.H, e.res, board), res |-> e.res, raised |-> FALSE]

\* _move_root(search_tree, board): raised is the ValueError of line 84
_move_root(H, search_tree, board) ==
    LET f == _find_connecting_action_sequence(
                 H.arrays[H.nodes[search_tree].root_board], board,
                 H.nodes[search_tree].player)
    IN  IF ~f.found
        THEN [H |-> H, res |-> None, raised |-> TRUE]
        ELSE LET e == expand_path(H, search_tree, f.moves)
             IN  [H |-> make_root(e.H, e.res, board), res |-> e.res,
                  raised |-> FALSE]

\* mutant: _selection_helper without the test of is_end_state
RECURSIVE _selection_helper_ignore_mark(_, _, _)
_selection_helper_ignore_mark(H, node, board) ==
    LET n == H.nodes[node]
        moves == _get_legal_moves(board)
    IN  IF Len(moves) > Len(n.children)
        THEN {LET e == expand_child(H, node, move)
                  new_board == apply_player_action(board, move, n.player)
                  end == check_end_state(new_board, n.player) # "STILL_PLAYING"
              IN  [H |-> [e.H EXCEPT !.nodes[e.res].is_end_state =
                                        IF end THEN "True" ELSE "False"],
                   node |-> e.res, board |-> new_board, err |-> "none"] :
              move \in {m \in Range(moves) : ~has_child(n.children, m)}}
        ELSE IF n.children = <<>>
        THEN {[H |-> H, node |-> node, board |-> board, err |-> "ValueError"]}
        ELSE UNION {
                 _selection_helper_ignore_mark(
                     H, n.children[k].node,
                     apply_player_action(board, n.children[k].move,
                                         n.player)) :
                 k \in 1 .. Len(n.children)}

\* mutant: the end state of the new child asked for the player to move next
RECURSIVE _selection_helper_mark_next_player(_, _, _)
_selection_helper_mark_next_player(H, node, board) ==
    LET n == H.nodes[node]
        moves == _get_legal_moves(board)
    IN  IF n.is_end_state = "True"
        THEN {[H |-> H, node |-> node, board |-> board, err |-> "none"]}
        ELSE IF Len(moves) > Len(n.children)
        THEN {LET e == expand_child(H, node, move)
                  new_board == apply_player_action(board, move, n.player)
                  end == check_end_state(new_board, _OTHER_PLAYER(n.player))
                           # "STILL_PLAYING"
              IN  [H |-> [e.H EXCEPT !.nodes[e.res].is_end_state =
                                        IF end THEN "True" ELSE "False"],
                   node |-> e.res, board |-> new_board, err |-> "none"] :
              move \in {m \in Range(moves) : ~has_child(n.children, m)}}
        ELSE IF n.children = <<>>
        THEN {[H |-> H, node |-> node, board |-> board, err |-> "ValueError"]}
        ELSE IF \E k \in 1 .. Len(n.children) :
                    select_raises(H.nodes[n.children[k].node].stats, n.stats)
        THEN {[H |-> H, node |-> node, board |-> board, err |-> "KeyError"]}
        ELSE UNION {
                 IF apply_player_action_raises(board, n.children[k].move)
                 THEN {[H |-> H, node |-> node, board |-> board,
                        err |-> "ValueError"]}
                 ELSE _selection_helper_mark_next_player(
                          H, n.children[k].node,
                          apply_player_action(board, n.children[k].move,
                                              n.player)) :
                 k \in 1 .. Len(n.children)}

\* _selection_helper(node, board, selection_function): the set of outcomes
\* over the random choice of the move to expand and over the child that an
\* arbitrary selection function gives the highest value.  err is "none", or
\* the exception raised: max() of no children and apply_player_action on a
\* full column raise ValueError, select on an empty stats blob KeyError.
RECURSIVE _selection_helper(_, _, _)
_selection_helper(H, node, board) ==
    LET n == H.nodes[node]
        moves == _get_legal_moves(board)
    IN  IF n.is_end_state = "True"
        THEN {[H |-> H, node |-> node, board |-> board, err |-> "none"]}
        ELSE IF Len(moves) > Len(n.children)
        THEN {LET e == expand_child(H, node, move)
                  new_board == apply_player_action(board, move, n.player)
                  end == check_end_state(new_board, n.player) # "STILL_PLAYING"
              IN  [H |-> [e.H EXCEPT !.nodes[e.res].is_end_state =
                                        IF end THEN "True" ELSE "False"],
                   node |-> e.res, board |-> new_board, err |-> "none"] :
              move \in {m \in Range(moves) : ~has_child(n.children, m)}}
        ELSE IF n.children = <<>>
        THEN {[H |-> H, node |-> node, board |-> board, err |-> "ValueError"]}
        ELSE IF \E k \in 1 .. Len(n.children) :
                    select_raises(H.nodes[n.children[k].node].stats, n.stats)
        THEN {[H |-> H, node |-> node, board |-> board, err |-> "KeyError"]}
        ELSE UNION {
                 IF apply_player_action_raises(board, n.children[k].move)
                 THEN {[H |-> H, node |-> node, board |-> board,
                        err |-> "ValueError"]}
                 ELSE _selection_helper(
                          H, n.children[k].node,
                          apply_player_action(board, n.children[k].move,
                                              n.player)) :
                 k \in 1 .. Len(n.children)}

\* _select_and_expand(search_tree, selection_function)
_select_and_expand(H, search_tree) ==
    _selection_helper(H, search_tree,
                      H.arrays[H.nodes[search_tree].root_board])

\* the loop of _simulate (numba variant) from its head: `player` is the one
\* whose four in a row is looked for, fill is fill_level; the set of values
\* the random playouts return
RECURSIVE _simulate_loop(_, _, _)
_simulate_loop(board, fill, player) ==
    IF connected_four(board, player) THEN {player}
    ELSE LET mover == _OTHER_PLAYER(player)
             legal_moves == {c \in ColIdx : board[Rows - 1][c] = NO_PLAYER}
         IN  IF legal_moves = {} THEN {NO_PLAYER}
             ELSE UNION {_simulate_loop(
                             [board EXCEPT ![fill[move]][move] = mover],
                             [fill EXCEPT ![move] = @ + 1], mover) :
                         move \in legal_moves}

\* _simulate(board, player): fill_level = np.sum(board != NO_PLAYER, axis=0)
_simulate(board, player) ==
    _simulate_loop(
        board,
        [j \in ColIdx |-> Cardinality({i \in RowIdx : board[i][j] # NO_PLAYER})],
        _OTHER_PLAYER(player))

\* mutant: _simulate that plays on the board it was given
_simulate_begin_no_copy(H, board, player) ==
    [H |-> H, board |-> board,
     fill_level |-> [j \in ColIdx |->
                        Cardinality({i \in RowIdx :
                                        H.arrays[board][i][j] # NO_PLAYER})],
     player |-> _OTHER_PLAYER(player)]

\* _simulate (numba variant) up to the loop: board = board.copy(),
\* fill_level = np.sum(board != NO_PLAYER, axis=0), player = the other one
_simulate_begin(H, board, player) ==
    LET c == array_copy(H, board)
    IN  [H |-> c.H, board |-> c.res,
         fill_level |-> [j \in ColIdx |->
                            Cardinality({i \in RowIdx :
                                            H.arrays[board][i][j] # NO_PLAYER})],
         player |-> _OTHER_PLAYER(player)]

\* _simulate (numba variant): one pass of the while loop on the frame
\* [board, fill_level, player]; the pass returns a value or plays one move
_simulate_pass(H, f) ==
    IF connected_four(H.arrays[f.board], f.player)
    THEN {[H |-> H, f |-> f, returned |-> TRUE, value |-> f.player]}
    ELSE LET player == _OTHER_PLAYER(f.player)
             legal_moves == {c \in ColIdx :
                                H.arrays[f.board][Rows - 1][c] = NO_PLAYER}
         IN  IF legal_moves = {}
             THEN {[H |-> H, f |-> [f EXCEPT !.player = player],
                    returned |-> TRUE, value |-> NO_PLAYER]}
             ELSE {[H |-> [H EXCEPT !.arrays[f.board][f.fill_level[move]][move]
                                       = player],
                    f |-> [f EXCEPT !.player = player,
                                    !.fill_level[move] = @ + 1],
                    returned |-> FALSE, value |-> NO_PLAYER] :
                   move \in legal_moves}

\* mutant: _propagate_up that stops below the root
RECURSIVE _propagate_up_skip_root(_, _, _, _)
_propagate_up_skip_root(H, node, winner, logic) ==
    IF node = None \/ H.nodes[node].parent = None THEN H
    ELSE _propagate_up_skip_root(
             [H EXCEPT !.nodes[node].stats = update(logic, @, winner)],
             H.nodes[node].parent, winner, logic)

\* mutant: _propagate_up that applies the update twice to every node
RECURSIVE _propagate_up_update_twice(_, _, _, _)
_propagate_up_update_twice(H, node, winner, logic) ==
    IF node = None THEN H
    ELSE _propagate_up_update_twice(
             [H EXCEPT !.nodes[node].stats =
                          update(logic, update(logic, @, winner), winner)],
             H.nodes[node].parent, winner, logic)

\* _propagate_up(terminal_node, winner, update_function)
RECURSIVE _propagate_up(_, _, _, _)
_propagate_up(H, node, winner, logic) ==
    IF node = None THEN H
    ELSE _propagate_up(
             [H EXCEPT !.nodes[node].stats = update(logic, @, winner)],
             H.nodes[node].parent, winner, logic)

\* _monte_carlo_tree_search(search_tree, select, update): the set of outcomes
\* of one iteration; an exception of the selection leaves the heap as the
\* selection left it
_monte_carlo_tree_search(H, search_tree, logic) ==
    UNION {
        IF sel.err # "none" THEN {[H |-> sel.H, err |-> sel.err]}
        ELSE {[H |-> _propagate_up(sel.H, sel.node, winner, logic),
               err |-> "none"] :
              winner \in _simulate(sel.board, sel.H.nodes[sel.node].player)} :
        sel \in _select_and_expand(H, search_tree)}

----------------------------------------------------------------------------
(* mcts_logics/baseclass.py: MCTSLogic.run and choose_action, and          *)
(* generate_move_mcts.  A configuration cfg is [logic, num_processes,      *)
(* iterations] with time_based = False.                                    *)

EmptyHeap == [arrays |-> <<>>, nodes |-> <<>>]

\* Queue.put / Queue.get of a tree: pickling copies every object the tree
\* reaches into the heap D of the receiver, an array that several nodes
\* reference is copied once (amap: array of S -> its copy in D).  The trees
\* the engine sends have a root without parent.
RECURSIVE pickle_node(_, _, _, _, _)
RECURSIVE pickle_children(_, _, _, _, _, _)
pickle_node(D, S, node, parent, amap) ==
    LET n == S.nodes[node]
        fresh == amap[n.root_board] = None
        arr == IF fresh THEN Len(D.arrays) + 1 ELSE amap[n.root_board]
        new == Len(D.nodes) + 1
        D1 == [arrays |-> IF fresh
                          THEN Append(D.arrays, S.arrays[n.root_board])
                          ELSE D.arrays,
               nodes |-> Append(D.nodes,
                                [n EXCEPT !.children = <<>>,
                                          !.parent = parent,
                                          !.root_board = arr])]
    IN  pickle_children(D1, S, n.children, 1, new,
                        [amap EXCEPT ![n.root_board] = arr])

pickle_children(D, S, children, k, new, amap) ==
    IF k > Len(children) THEN [H |-> D, res |-> new, amap |-> amap]
    ELSE LET c == pickle_node(D, S, children[k].node, new, amap)
         IN  pickle_children(
                 [c.H EXCEPT !.nodes[new].children =
                     Append(@, [move |-> children[k].move, node |-> c.res])],
                 S, children, k + 1, new, c.amap)

pickle_copy(D, S, search_tree) ==
    LET c == pickle_node(D, S, search_tree, None,
                         [a \in 1 .. Len(S.arrays) |-> None])
    IN  [H |-> c.H, res |-> c.res]

\* len(range(self.iterations // self.num_processes)) of get_iter
get_iter(cfg) == cfg.iterations \div cfg.num_processes

\* `for _ in self.get_iter(): mcts(search_tree, self.select, self.update)`
\* with k iterations to go: the set of outcomes, an exception ends the loop
RECURSIVE iterate(_, _, _, _)
iterate(H, search_tree, logic, k) ==
    IF k = 0 THEN {[H |-> H, err |-> "none"]}
    ELSE UNION {IF r.err # "none" THEN {r}
                ELSE iterate(r.H, search_tree, logic, k - 1) :
                r \in _monte_carlo_tree_search(H, search_tree, logic)}

\* search_trees += [self._output_queue.get()], for the results from
\* position k on: each result arrives as a copy in the heap of the caller
RECURSIVE get_results(_, _, _, _)
get_results(H, results, k, search_trees) ==
    IF k > Len(results) THEN [H |-> H, search_trees |-> search_trees]
    ELSE LET c == pickle_copy(H, results[k].H, 1)
         IN  get_results(c.H, results, k + 1, Append(search_trees, c.res))

\* `for tree in search_trees[1:]: merged_tree = merge_trees(merged_tree, tree)`
RECURSIVE merge_results(_, _, _, _, _)
merge_results(H, merged_tree, search_trees, k, logic) ==
    IF k > Len(search_trees)
    THEN [H |-> H, res |-> merged_tree, raised |-> FALSE]
    ELSE LET m == merge_trees(H, merged_tree, search_trees[k], logic)
         IN  IF m.raised THEN m
             ELSE merge_results(m.H, m.res, search_trees, k + 1, logic)

\* MCTSLogic.run(mcts, search_tree): the set of outcomes [H, res, err].  With
\* several processes every worker gets the same snapshot of the tree and
\* runs its iterations on it, in a heap of its own; the results are taken
\* in the order the workers finish.  An exception in a worker ends that
\* worker without a result: err is the exception, and run does not return.
run(H, search_tree, cfg) ==
    IF cfg.num_processes <= 1
    THEN {[H |-> r.H, res |-> search_tree, err |-> r.err] :
          r \in iterate(H, search_tree, cfg.logic, get_iter(cfg))}
    ELSE LET snapshot == pickle_copy(EmptyHeap, H, search_tree)
             worker == iterate(snapshot.H, snapshot.res, cfg.logic,
                               get_iter(cfg))
         IN  {IF \E i \in 1 .. cfg.num_processes : results[i].err # "none"
              THEN [H |-> H, res |-> None,
                    err |-> results[CHOOSE i \in 1 .. cfg.num_processes :
                                        results[i].err # "none"].err]
              ELSE LET g == get_results(H, results, 1, <<>>)
                       m == merge_results(g.H, g.search_trees[1],
                                          g.search_trees, 2, cfg.logic)
                   IN  [H |-> m.H, res |-> m.res,
                        err |-> IF m.raised THEN "merge: ValueError" ELSE "none"] :
              results \in [1 .. cfg.num_processes -> worker]}

\* mutant: the fraction of wins with the draws left in the denominator
_action_choice_metric_with_draws(logic, stats, player) ==
    IF logic = "UCB1"
    THEN LET w == IF player = PLAYER2 THEN stats.s - stats.w ELSE stats.w
         IN  IF stats.s = 0 THEN [num |-> 0, den |-> 1]
             ELSE [num |-> w, den |-> stats.s]
    ELSE IF player = PLAYER1
    THEN [num |-> stats.a, den |-> stats.a + stats.b]
    ELSE [num |-> stats.b, den |-> stats.a + stats.b]

\* _frac_wins(stats, player) of ucb1.py and _mean_p_win(player, a, b) of
\* beta.py, as the fraction num / den
_action_choice_metric(logic, stats, player) ==
    IF logic = "UCB1"
    THEN LET w == IF player = PLAYER2 THEN stats.s - stats.w ELSE stats.w
             n == stats.s - stats.draw
         IN  IF n = 0 THEN [num |-> 0, den |-> 1] ELSE [num |-> w, den |-> n]
    ELSE IF player = PLAYER1
    THEN [num |-> stats.a, den |-> stats.a + stats.b]
    ELSE [num |-> stats.b, den |-> stats.a + stats.b]

\* x > y for fractions with positive denominators
greater(x, y) == x.num * y.den > y.num * x.den

\* move_stats of generate_move_mcts and MCTSLogic.choose_action: max() gives
\* the first action, in the order of the children dict, whose value no other
\* action exceeds; it raises on no children, the metric on empty stats
choose_action(logic, H, search_tree, player) ==
    LET children == H.nodes[search_tree].children
        value(k) == _action_choice_metric(
                        logic, H.nodes[children[k].node].stats, player)
    IN  IF \E k \in 1 .. Len(children) :
               H.nodes[children[k].node].stats = EmptyStats
        THEN [action |-> None, err |-> "choose: KeyError"]
        ELSE IF children = <<>>
        THEN [action |-> None, err |-> "choose: ValueError"]
        ELSE LET best == CHOOSE k \in 1 .. Len(children) :
                             /\ \A j \in 1 .. Len(children) :
                                    ~greater(value(j), value(k))
                             /\ \A j \in 1 .. (k - 1) :
                                    greater(value(k), value(j))
             IN  [action |-> children[best].move, err |-> "none"]

\* generate_move_mcts(board, player, saved_state, logic): board is the id of
\* the array given.  The set of outcomes [H, action, tree, err]; err is
\* "none" when the call returns, "incompatible" for the ValueError of
\* _move_root, "ValueError" or "KeyError" for the exception of a selection,
\* and the exception of the merge or of the choice under these prefixes.
generate_move_mcts(H, board, player, saved_state, cfg) ==
    LET t == IF saved_state = None
             THEN LET n == SearchTree(H, board, player)
                  IN  [H |-> n.H, res |-> n.res, raised |-> FALSE]
             ELSE _move_root(H, saved_state, H.arrays[board])
    IN  IF t.raised
        THEN {[H |-> t.H, action |-> None, tree |-> None,
               err |-> "incompatible"]}
        ELSE {IF r.err # "none"
              THEN [H |-> r.H, action |-> None, tree |-> None, err |-> r.err]
              ELSE LET c == choose_action(cfg.logic, r.H, r.res, player)
                   IN  [H |-> r.H, action |-> c.action, tree |-> r.res,
                        err |-> c.err] :
              r \in run(t.H, t.res, cfg)}

----------------------------------------------------------------------------
(* agent_minimax/heuristics.py and agent_minimax/minimax.py *)

\* np.inf: above every finite value of base_heuristic
inf == 1000

\* _x_in_a_row (numba variant): the number of horizontal, vertical and
\* diagonal runs of x cells that all hold a piece of `player`
_x_in_a_row(board, player, x) ==
    LET rows == shape(board)[1]
        cols == shape(board)[2]
        b(i, j) == board[i][j] = player
    IN  Cardinality({c \in (0 .. (rows - 1)) \X (0 .. (cols - x)) :
                        \A k \in 0 .. (x - 1) : b(c[1], c[2] + k)})
        + Cardinality({c \in (0 .. (rows - x)) \X (0 .. (cols - 1)) :
                        \A k \in 0 .. (x - 1) : b(c[1] + k, c[2])})
        + Cardinality({c \in (0 .. (rows - x)) \X (0 .. (cols - x)) :
                        \A k \in 0 .. (x - 1) : b(c[1] + k, c[2] + k)})
        + Cardinality({c \in (0 .. (rows - x)) \X (0 .. (cols - x)) :
                        \A k \in 0 .. (x - 1) : b(c[1] + (x - 1) - k, c[2] + k)})

\* base_heuristic: PLAYER1 is asked first, then PLAYER2
base_heuristic(board) ==
    IF check_end_state(board, PLAYER1) = "IS_WIN" THEN inf
    ELSE IF check_end_state(board, PLAYER2) = "IS_WIN" THEN -inf
    ELSE LET threes == _x_in_a_row(board, PLAYER1, 3)
                         - _x_in_a_row(board, PLAYER2, 3)
             twos == _x_in_a_row(board, PLAYER1, 2)
                       - _x_in_a_row(board, PLAYER2, 2)
         IN  threes * threes + twos

\* sorted(mvs, key=lambda a: (a - cols/2)**2): a stable sort, so columns of
\* equal key stay in ascending order
RECURSIVE sorted_moves(_, _)
sorted_moves(mvs, cols) ==
    IF mvs = {} THEN <<>>
    ELSE LET key(a) == (2 * a - cols) * (2 * a - cols)
             first == CHOOSE a \in mvs :
                          \A c \in mvs : \/ key(a) < key(c)
                                         \/ key(a) = key(c) /\ a <= c
         IN  <<first>> \o sorted_moves(mvs \ {first}, cols)

\* minimax.py _get_legal_moves: the legal columns, center columns first
_get_legal_moves_minimax(board) ==
    sorted_moves(Range(_get_legal_moves(board)), shape(board)[2])

\* mutant: _update_alpha_beta that prunes against its own bound
_update_alpha_beta_own_bound(a, b, value, player) ==
    IF player = PLAYER1
    THEN [a |-> IF a >= value THEN a ELSE value, b |-> b, prune |-> value >= a]
    ELSE [a |-> a, b |-> IF b <= value THEN b ELSE value, prune |-> value <= b]

\* _update_alpha_beta
_update_alpha_beta(a, b, value, player) ==
    IF player = PLAYER1
    THEN [a |-> IF a >= value THEN a ELSE value, b |-> b, prune |-> value >= b]
    ELSE [a |-> a, b |-> IF b <= value THEN b ELSE value, prune |-> value <= a]

\* alpha_beta: the test under which the board is valued by the heuristic and
\* no move is tried; check_end_state is asked for the player to move
alpha_beta_is_leaf(board, depth, player) ==
    depth <= 0 \/ check_end_state(board, player) # "STILL_PLAYING"

RECURSIVE alpha_beta(_, _, _, _, _)
RECURSIVE alpha_beta_loop(_, _, _, _, _, _, _, _)

\* alpha_beta: the for loop over the legal moves from the k-th on, `value`
\* being the running value
alpha_beta_loop(board, depth, a, b, player, moves, k, value) ==
    IF k > Len(moves) THEN value
    ELSE LET color == IF player = PLAYER1 THEN 1 ELSE -1
             child == apply_player_action(board, moves[k], player)
             sub == color * alpha_beta(child, depth - 1, a, b,
                                       _OTHER_PLAYER(player))
             value1 == color * (IF color * value >= sub THEN color * value
                                ELSE sub)
             u == _update_alpha_beta(a, b, value1, player)
         IN  IF u.prune THEN value1
             ELSE alpha_beta_loop(board, depth, u.a, u.b, player, moves,
                                  k + 1, value1)

\* alpha_beta with heuristic = base_heuristic
alpha_beta(board, depth, a, b, player) ==
    IF alpha_beta_is_leaf(board, depth, player)
    THEN base_heuristic(board)
    ELSE LET color == IF player = PLAYER1 THEN 1 ELSE -1
         IN  alpha_beta_loop(board, depth, a, b, player,
                             _get_legal_moves_minimax(board), 1,
                             -color * inf)

\* generate_move_minimax: the (action, value) pairs one pass of the for loop
\* appends to `values`
pass_values(board, player, depth) ==
    LET actions == _get_legal_moves_minimax(board)
    IN  [k \in 1 .. Len(actions) |->
            [action |-> actions[k],
             value |-> alpha_beta(apply_player_action(board, actions[k], player),
                                  depth, -inf, inf, _OTHER_PLAYER(player))]]

\* generate_move_minimax: `values` after n passes; the list is created once,
\* before the while loop, and every pass appends to it
RECURSIVE values_after(_, _, _, _)
values_after(board, player, depth, n) ==
    IF n = 0 THEN <<>>
    ELSE values_after(board, player, depth, n - 1)
         \o pass_values(board, player, depth + n - 1)

\* f(values, key=lambda av: av[1])[0] with f = max for PLAYER1 and min for
\* PLAYER2: the action of the first pair of best value
best_action(values, player) ==
    LET better(v, w) == IF player = PLAYER1 THEN v > w ELSE v < w
        k == CHOOSE i \in 1 .. Len(values) :
                 /\ \A m \in 1 .. Len(values) :
                        ~better(values[m].value, values[i].value)
                 /\ \A m \in 1 .. (i - 1) :
                        better(values[i].value, values[m].value)
    IN  values[k].action

\* generate_move_minimax(board, player, saved_state, depth, base_heuristic,
\* max_time): the actions it can return, each with the number of passes
\* completed before.  Without max_time it returns after the first pass.  With
\* max_time the clock decides in which pass the loop is broken, and the
\* best_action of the passes completed before is returned (actions[0] when
\* the first pass is broken).
generate_move_minimax(board, player, depth, max_time) ==
    LET actions == _get_legal_moves_minimax(board)
        ret(n) == [action |-> IF n = 0 THEN actions[1]
                              ELSE best_action(values_after(board, player,
                                                            depth, n), player),
                   passes |-> n]
    IN  IF max_time = None THEN {ret(1)}
        ELSE {ret(n) : n \in 0 .. MaxPasses}

----------------------------------------------------------------------------
(* SpecFind: _find_connecting_action_sequence on boards built by play and   *)
(* by tampering.  The root board is a position of a game; the goal board   *)
(* is the root plus pieces of either player in legal columns, with at most *)
(* one cell overwritten by any value.                                      *)

NoFind == [root_board |-> initialize_game_state, board |-> initialize_game_state,
           player |-> PLAYER1, turn |-> PLAYER1, nroot |-> 0, ngoal |-> 0,
           tampered |-> FALSE,
           result |-> [found |-> FALSE, moves |-> <<>>]]
NoCall == [called |-> FALSE]
NoReloc == [tree |-> None, logic |-> "UCB1", iters |-> 0, nreloc |-> 0,
            last |-> NoCall]
NoMrg == [tree1 |-> None, tree2 |-> None, merged |-> None, logic |-> "UCB1",
          iters |-> 0]
NoSt == [logic |-> "UCB1", stats1 |-> EmptyStats, stats2 |-> EmptyStats,
         stats12 |-> EmptyStats, n1 |-> 0, n2 |-> 0, merged |-> EmptyStats,
         count |-> [winner \in BoardPiece |-> 0]]
NoGame == [agent |-> PLAYER1,
           cfg |-> [logic |-> "UCB1", num_processes |-> 1, iterations |-> 0],
           board |-> initialize_game_state, player |-> PLAYER1,
           saved_state |-> None, ncalls |-> 0, last |-> NoCall]

InitFind ==
    /\ arrays = <<>>
    /\ nodes = <<>>
    /\ pc = "root"
    /\ find = NoFind
    /\ reloc = NoReloc
    /\ mrg = NoMrg
    /\ st = NoSt
    /\ game = NoGame

FindFrame == UNCHANGED <<arrays, nodes, reloc, mrg, st, game>>

\* one more move of the game that leads to the root position
FindRootMove ==
    /\ pc = "root"
    /\ find.nroot < MaxRootMoves
    /\ \E move \in Range(_get_legal_moves(find.root_board)) :
          find' = [find EXCEPT
                     !.root_board = apply_player_action(@, move, find.turn),
                     !.turn = _OTHER_PLAYER(@),
                     !.nroot = @ + 1]
    /\ UNCHANGED pc
    /\ FindFrame

\* the root is fixed: the goal starts as a copy, the starting player is chosen
FindFixRoot ==
    /\ pc = "root"
    /\ \E player \in Players :
          find' = [find EXCEPT !.board = find.root_board, !.player = player]
    /\ pc' = "goal"
    /\ FindFrame

\* a piece of either player dropped into a legal column of the goal board
FindGoalMove ==
    /\ pc = "goal"
    /\ ~find.tampered
    /\ find.ngoal < MaxGoalMoves
    /\ \E move \in Range(_get_legal_moves(find.board)), player \in Players :
          find' = [find EXCEPT
                     !.board = apply_player_action(@, move, player),
                     !.ngoal = @ + 1]
    /\ UNCHANGED pc
    /\ FindFrame

\* one cell of the goal board overwritten (a piece removed, replaced or added)
FindTamper ==
    /\ pc = "goal"
    /\ ~find.tampered
    /\ \E i \in RowIdx, j \in ColIdx, v \in BoardPiece :
          /\ v # find.board[i][j]
          /\ find' = [find EXCEPT !.board[i][j] = v, !.tampered = TRUE]
    /\ UNCHANGED pc
    /\ FindFrame

\* the call _find_connecting_action_sequence(root_board, board, player)
FindCall ==
    /\ pc = "goal"
    /\ find' = [find EXCEPT !.result =
                   _find_connecting_action_sequence(
                       find.root_board, find.board, find.player)]
    /\ pc' = "done"
    /\ FindFrame

NextFind == FindRootMove \/ FindFixRoot \/ FindGoalMove \/ FindTamper \/ FindCall

SpecFind == InitFind /\ [][NextFind]_vars

\* the number of pieces on a board
NPieces(board) ==
    Cardinality({c \in RowIdx \X ColIdx : board[c[1]][c[2]] # NO_PLAYER})

\* the boards that k alternating moves into non-full columns lead to from a
\* board of S, `player` moving first
RECURSIVE BoardsAfter(_, _, _)
BoardsAfter(S, player, k) ==
    IF k = 0 THEN S
    ELSE BoardsAfter(
             UNION {{apply_player_action(b, move, player) :
                        move \in Range(_get_legal_moves(b))} : b \in S},
             _OTHER_PLAYER(player), k - 1)

\* some sequence of alternating moves into non-full columns transforms root
\* into goal; a move adds one piece, so a sequence that ends in goal has as
\* many moves as goal has pieces more than root
AlternatingReach(root, goal, player) ==
    \E k \in 0 .. (NPieces(goal) - NPieces(root)) :
        goal \in BoardsAfter({root}, player, k)

\* the moves replayed from a board, alternating players; ok is FALSE when a
\* move goes into a full column
RECURSIVE Replay(_, _, _)
Replay(board, moves, player) ==
    IF moves = <<>> THEN [ok |-> TRUE, board |-> board]
    ELSE IF apply_player_action_raises(board, Head(moves))
    THEN [ok |-> FALSE, board |-> board]
    ELSE Replay(apply_player_action(board, Head(moves), player),
                Tail(moves), _OTHER_PLAYER(player))

\* C2: _find_connecting_action_sequence(root, goal, p) reports found exactly
\* when some alternating sequence of moves into non-full columns, p moving
\* first, transforms root into goal, and the sequence it returns, replayed
\* from root, yields goal.
C2_FindIffReachable ==
    pc = "done" =>
        LET r == find.result
            replayed == Replay(find.root_board, r.moves, find.player)
        IN  /\ r.found <=> AlternatingReach(find.root_board, find.board,
                                            find.player)
            /\ r.found => replayed.ok /\ replayed.board = find.board
            /\ ~r.found => r.moves = <<>>

\* a goal two moves away from the root was found
C2_Witness ==
    /\ pc = "done"
    /\ find.result.found
    /\ Len(find.result.moves) = 2
    /\ find.nroot = 1

\* a goal that passes the pruning check at the root and is not reachable
C2_WitnessUnreachable ==
    /\ pc = "done"
    /\ ~find.result.found
    /\ _is_possible_predecessor(find.root_board, find.board)

----------------------------------------------------------------------------
(* SpecReloc: a tree grown by MCTS iterations and relocated by _move_root   *)
(* to boards that continue the root position and to boards that do not.    *)

Heap == [arrays |-> arrays, nodes |-> nodes]

\* the boards that k pieces of either player in legal columns lead to
RECURSIVE AnyPiecesAfter(_, _)
AnyPiecesAfter(S, k) ==
    IF k = 0 THEN S
    ELSE S \cup AnyPiecesAfter(
             UNION {{apply_player_action(b, move, player) :
                        move \in Range(_get_legal_moves(b)),
                        player \in Players} : b \in S},
             k - 1)

\* a board with one piece removed or replaced by the other player's
Tampered(b) ==
    {[b EXCEPT ![c[1]][c[2]] = v] :
        c \in {d \in RowIdx \X ColIdx : b[d[1]][d[2]] # NO_PLAYER},
        v \in BoardPiece} \ {b}

\* the boards a caller hands to _move_root
RelocBoards(root) ==
    LET G == AnyPiecesAfter({root}, MaxGoalMoves)
    IN  G \cup UNION {Tampered(b) : b \in G}

InitReloc ==
    /\ \E k \in 0 .. MaxRootMoves :
          \E b \in BoardsAfter({initialize_game_state}, PLAYER1, k) :
             /\ arrays = <<b>>
             /\ nodes = <<NewNode(1, IF k % 2 = 0 THEN PLAYER1 ELSE PLAYER2)>>
    /\ \E logic \in Logics : reloc = [NoReloc EXCEPT !.tree = 1, !.logic = logic]
    /\ pc = "run"
    /\ find = NoFind
    /\ mrg = NoMrg
    /\ st = NoSt
    /\ game = NoGame

RelocFrame == UNCHANGED <<find, mrg, st, game>>

\* one MCTS iteration on the tree
RelocIterate ==
    /\ pc = "run"
    /\ reloc.iters < MaxIters
    /\ \E r \in _monte_carlo_tree_search(Heap, reloc.tree, reloc.logic) :
          /\ arrays' = r.H.arrays
          /\ nodes' = r.H.nodes
          /\ pc' = IF r.err = "none" THEN "run" ELSE r.err
    /\ reloc' = [reloc EXCEPT !.iters = @ + 1, !.last = NoCall]
    /\ RelocFrame

\* the call _move_root(tree, board); last records the call: the heap before
\* it, the connecting moves, and what it returned or that it raised
RelocMoveRoot ==
    /\ pc = "run"
    /\ reloc.nreloc < MaxRelocs
    /\ \E board \in RelocBoards(arrays[nodes[reloc.tree].root_board]) :
          LET m == _move_root(Heap, reloc.tree, board)
              f == _find_connecting_action_sequence(
                       arrays[nodes[reloc.tree].root_board], board,
                       nodes[reloc.tree].player)
          IN  /\ arrays' = m.H.arrays
              /\ nodes' = m.H.nodes
              /\ pc' = IF m.raised THEN "raised" ELSE "run"
              /\ reloc' = [reloc EXCEPT
                     !.tree = IF m.raised THEN @ ELSE m.res,
                     !.nreloc = @ + 1,
                     !.last = [called |-> TRUE, board |-> board,
                               tree |-> reloc.tree, H0 |-> Heap,
                               found |-> f.found, moves |-> f.moves,
                               raised |-> m.raised, res |-> m.res]]
    /\ RelocFrame

NextReloc == RelocIterate \/ RelocMoveRoot

SpecReloc == InitReloc /\ [][NextReloc]_vars

\* the node that the path of actions leads to from a node, None if there
\* is no such node
RECURSIVE NodeAt(_, _, _)
NodeAt(N, node, path) ==
    IF path = <<>> THEN node
    ELSE IF ~has_child(N[node].children, Head(path)) THEN None
    ELSE NodeAt(N, get_child(N[node].children, Head(path)), Tail(path))

\* the root board and root player of the tree handed to the last _move_root
LastRootBoard == reloc.last.H0.arrays[reloc.last.H0.nodes[reloc.last.tree].root_board]
LastRootPlayer == reloc.last.H0.nodes[reloc.last.tree].player

\* the last call got the root board plus move m1 of the root player and
\* move m2 of the other player
LastPlayed(m1, m2) ==
    /\ ~apply_player_action_raises(LastRootBoard, m1)
    /\ LET b1 == apply_player_action(LastRootBoard, m1, LastRootPlayer)
       IN  /\ ~apply_player_action_raises(b1, m2)
           /\ reloc.last.board =
                  apply_player_action(b1, m2, _OTHER_PLAYER(LastRootPlayer))

\* C1: relocation to the board that legal move m1 of the root player and
\* legal move m2 of the other player lead to finds exactly [m1, m2], and
\* _move_root returns the node at path [m1, m2], whose root_board equals
\* that board in every cell.
C1_RelocationFindsPlayedMoves ==
    reloc.last.called =>
        \A m1 \in ColIdx, m2 \in ColIdx :
            LastPlayed(m1, m2) =>
                /\ reloc.last.found
                /\ reloc.last.moves = <<m1, m2>>
                /\ ~reloc.last.raised
                /\ reloc.last.res # None
                /\ reloc.last.res = NodeAt(nodes, reloc.last.tree, <<m1, m2>>)
                /\ arrays[nodes[reloc.last.res].root_board] = reloc.last.board

\* a tree that was searched is relocated by two played moves m1 # m2
C1_Witness ==
    /\ reloc.last.called
    /\ reloc.iters >= 1
    /\ \E m1 \in ColIdx, m2 \in ColIdx : m1 # m2 /\ LastPlayed(m1, m2)
    /\ nodes[reloc.last.res].parent = None

\* C4: when no alternating move sequence that the root player starts
\* connects the root board to the given board, _move_root raises and leaves
\* the tree as it was: no node is created and no node's stats, children,
\* parent link or root board changes.
C4_IncompatibleRaisesAndKeepsTree ==
    (reloc.last.called
       /\ ~AlternatingReach(LastRootBoard, reloc.last.board, LastRootPlayer))
    => /\ reloc.last.raised
       /\ pc = "raised"
       /\ nodes = reloc.last.H0.nodes
       /\ arrays = reloc.last.H0.arrays
       /\ reloc.tree = reloc.last.tree

\* a searched tree is asked to move to a board with a piece removed
C4_Witness ==
    /\ reloc.last.called
    /\ reloc.last.raised
    /\ Len(nodes) >= 3
    /\ NPieces(reloc.last.board) < NPieces(LastRootBoard)

\* C5: when the node at the end of the connecting path exists already,
\* _move_root returns that node and changes nothing but its parent link,
\* now None, and the contents of the shared root board, now the new board;
\* for the root board itself the root is returned.
C5_RerootKeepsStatistics ==
    (reloc.last.called /\ ~reloc.last.raised
       /\ NodeAt(reloc.last.H0.nodes, reloc.last.tree, reloc.last.moves) # None)
    => LET res == reloc.last.res
           N0 == reloc.last.H0.nodes
           A0 == reloc.last.H0.arrays
       IN  /\ res = NodeAt(N0, reloc.last.tree, reloc.last.moves)
           /\ reloc.tree = res
           /\ Len(nodes) = Len(N0)
           /\ \A n \in 1 .. Len(N0) :
                 nodes[n] = IF n = res THEN [N0[n] EXCEPT !.parent = None]
                            ELSE N0[n]
           /\ Len(arrays) = Len(A0)
           /\ \A a \in 1 .. Len(A0) :
                 arrays[a] = IF a = N0[res].root_board
                             THEN reloc.last.board ELSE A0[a]
           /\ reloc.last.board = LastRootBoard => res = reloc.last.tree

\* the root moves to an existing node that has statistics and a child
C5_Witness ==
    /\ reloc.last.called
    /\ ~reloc.last.raised
    /\ reloc.last.moves # <<>>
    /\ reloc.last.res = NodeAt(reloc.last.H0.nodes, reloc.last.tree,
                               reloc.last.moves)
    /\ nodes[reloc.last.res].stats # EmptyStats
    /\ nodes[reloc.last.res].children # <<>>
    /\ reloc.last.H0.nodes[reloc.last.res].parent # None

\* the total-sample count that select divides by: stats['s'] of UCB1.select,
\* n(**stats) = a + b + draw - 2 of Beta.select
samples(logic, stats) ==
    IF logic = "UCB1" THEN stats.s ELSE stats.a + stats.b + stats.draw - 2

\* the calls select(stats, parent_stats, player) that a descent of
\* _selection_helper from the node can make, whatever the selection prefers
RECURSIVE SelectCalls(_, _, _)
SelectCalls(H, node, board) ==
    LET n == H.nodes[node]
    IN  IF n.is_end_state = "True"
           \/ Len(_get_legal_moves(board)) > Len(n.children)
        THEN {}
        ELSE UNION {
                 {[stats |-> H.nodes[n.children[k].node].stats,
                   parent_stats |-> n.stats]}
                 \cup (IF apply_player_action_raises(board, n.children[k].move)
                       THEN {}
                       ELSE SelectCalls(
                                H, n.children[k].node,
                                apply_player_action(board, n.children[k].move,
                                                    n.player))) :
                 k \in 1 .. Len(n.children)}

\* C14: with one process, after any iterations and relocations, select is
\* called on initialized stats of a child with at least one sample, and on
\* initialized stats of the parent; no selection raises for missing stats.
C14_SelectOnSampledStats ==
    /\ pc # "KeyError"
    /\ pc = "run" =>
          \A call \in SelectCalls(Heap, reloc.tree,
                                  arrays[nodes[reloc.tree].root_board]) :
              /\ call.stats # EmptyStats
              /\ samples(reloc.logic, call.stats) > 0
              /\ call.parent_stats # EmptyStats

\* a tree that was relocated to a node below its root, and whose new root
\* has all its legal moves expanded: the next descent calls select
C14_Witness ==
    /\ pc = "run"
    /\ \E n \in 1 .. Len(nodes) : n # reloc.tree /\ nodes[n].parent = None
    /\ SelectCalls(Heap, reloc.tree,
                   arrays[nodes[reloc.tree].root_board]) # {}

----------------------------------------------------------------------------
(* SpecApply: apply_player_action with any column and any player, on the   *)
(* boards that such calls build from the empty board.  The caller keeps    *)
(* the returned board and drops the one it passed.                         *)

InitApply ==
    /\ arrays = <<initialize_game_state>>
    /\ nodes = <<>>
    /\ pc = "apply"
    /\ find = [napply |-> 0, last |-> NoCall]
    /\ reloc = NoReloc
    /\ mrg = NoMrg
    /\ st = NoSt
    /\ game = NoGame

\* board = apply_player_action(board, action, player)
ApplyAction ==
    /\ pc = "apply"
    /\ find.napply < MaxApply
    /\ \E action \in ColIdx, player \in Players :
          LET r == apply_player_action_copy(Heap, 1, action, player)
          IN  /\ arrays' = IF r.raised THEN arrays ELSE <<r.H.arrays[r.res]>>
              /\ find' = [napply |-> IF r.raised THEN find.napply
                                     ELSE find.napply + 1,
                          last |-> [called |-> TRUE, H0 |-> Heap, H1 |-> r.H,
                                    board |-> 1, action |-> action,
                                    player |-> player, res |-> r.res,
                                    raised |-> r.raised]]
    /\ UNCHANGED <<nodes, pc, reloc, mrg, st, game>>

NextApply == ApplyAction

SpecApply == InitApply /\ [][NextApply]_vars

\* the cells in which two boards differ
DiffCells(board0, board1) ==
    {c \in RowIdx \X ColIdx : board0[c[1]][c[2]] # board1[c[1]][c[2]]}

\* C17: for a legal column, apply_player_action returns a board that differs
\* from the board given in exactly one cell, the lowest empty row of the
\* column, which holds the player; the board given keeps its contents.
C17_ApplyChangesOneCell ==
    (find.last.called /\ ~find.last.raised) =>
        LET B == find.last.H0.arrays[find.last.board]
            R == find.last.H1.arrays[find.last.res]
            c == find.last.action
            lowest == CHOOSE i \in RowIdx :
                          /\ B[i][c] = NO_PLAYER
                          /\ \A k \in RowIdx : k < i => B[k][c] # NO_PLAYER
        IN  /\ DiffCells(B, R) = {<<lowest, c>>}
            /\ R[lowest][c] = find.last.player
            /\ find.last.H1.arrays[find.last.board] = B
            /\ find.last.res # find.last.board

\* a piece put on top of other pieces, into the last free row of its column
C17_Witness ==
    /\ find.last.called
    /\ ~find.last.raised
    /\ find.last.H0.arrays[find.last.board][Rows - 2][find.last.action]
           # NO_PLAYER
    /\ find.last.H1.arrays[find.last.res][Rows - 1][find.last.action]
           = find.last.player

----------------------------------------------------------------------------
(* SpecMinimax and SpecDeepen: one call of generate_move_minimax on a      *)
(* board of MinimaxRows x MinimaxCols cells holding up to MaxPieces pieces *)
(* of either player, stacked from the bottom, with no four in a row yet.   *)
(* SpecMinimax: the player to move has a column that completes four in a   *)
(* row, and there is no time limit.  SpecDeepen: any such board, with a    *)
(* time limit and iterative deepening from a depth in 1 .. MaxStartDepth.  *)

\* initialize_game_state(shape=(rows, cols))
empty_board(rows, cols) ==
    [i \in 0 .. (rows - 1) |-> [j \in 0 .. (cols - 1) |-> NO_PLAYER]]

\* the boards holding k pieces
RECURSIVE Dropped(_)
Dropped(k) ==
    IF k = 0 THEN {empty_board(MinimaxRows, MinimaxCols)}
    ELSE UNION {{apply_player_action(b, c, p) :
                    c \in Range(_get_legal_moves(b)), p \in Players} :
                b \in Dropped(k - 1)}

MinimaxBoards ==
    {b \in UNION {Dropped(k) : k \in 0 .. MaxPieces} :
        /\ check_end_state(b, PLAYER1) = "STILL_PLAYING"
        /\ check_end_state(b, PLAYER2) = "STILL_PLAYING"}

\* the columns in which a piece of `player` completes four in a row
WinningColumns(board, player) ==
    {c \in Range(_get_legal_moves(board)) :
        connected_four(apply_player_action(board, c, player), player)}

MinimaxFrame == UNCHANGED <<arrays, nodes, find, reloc, mrg, st>>

InitMinimaxWith(boards, depths, max_time) ==
    /\ arrays = <<>>
    /\ nodes = <<>>
    /\ pc = "minimax"
    /\ find = NoFind
    /\ reloc = NoReloc
    /\ mrg = NoMrg
    /\ st = NoSt
    /\ \E board \in boards, player \in Players, depth \in depths :
          game = [board |-> board, player |-> player, depth |-> depth,
                  max_time |-> max_time, last |-> NoCall]

InitMinimax ==
    /\ InitMinimaxWith(MinimaxBoards, MinDepth .. MaxDepth, None)
    /\ WinningColumns(game.board, game.player) # {}

InitDeepen == InitMinimaxWith(MinimaxBoards, 1 .. MaxStartDepth, 1)

\* action, _ = generate_move_minimax(board, player, None, depth,
\*                                   base_heuristic, max_time)
GenerateMove ==
    /\ pc = "minimax"
    /\ \E r \in generate_move_minimax(game.board, game.player, game.depth,
                                       game.max_time) :
          game' = [game EXCEPT !.last = [called |-> TRUE, action |-> r.action,
                                         passes |-> r.passes]]
    /\ pc' = "done"
    /\ MinimaxFrame

NextMinimax == GenerateMove

SpecMinimax == InitMinimax /\ [][NextMinimax]_vars

SpecDeepen == InitDeepen /\ [][NextMinimax]_vars

\* C18: when the player to move has a column that completes four in a row,
\* generate_move_minimax with depth >= 3 and no time limit returns such a
\* column.
C18_TakesImmediateWin ==
    (game.last.called /\ game.max_time = None /\ game.depth >= 3
       /\ WinningColumns(game.board, game.player) # {}) =>
        game.last.action \in WinningColumns(game.board, game.player)

\* C18, the named case: PLAYER1 to move holds three cells in a row
\* horizontally with both end cells empty and playable, and the action
\* returned is one of the two end columns.
C18_OpenThree ==
    \A i \in 0 .. (MinimaxRows - 1), j \in 1 .. (MinimaxCols - 4) :
        (/\ game.last.called
         /\ game.player = PLAYER1
         /\ \A k \in 0 .. 2 : game.board[i][j + k] = PLAYER1
         /\ {j - 1, j + 3} \subseteq WinningColumns(game.board, PLAYER1))
        => game.last.action \in {j - 1, j + 3}

\* the value of `action` in the pass at `depth`
ValueAt(board, player, depth, action) ==
    LET values == pass_values(board, player, depth)
    IN  values[CHOOSE k \in 1 .. Len(values) : values[k].action = action].value

\* C19: with a time limit, the action returned after d completed passes
\* (d >= 1) has the best value of the last completed pass: no action has a
\* greater (PLAYER1) or smaller (PLAYER2) value in that pass.
C19_LastCompletedDepth ==
    (game.last.called /\ game.max_time # None /\ game.last.passes >= 1) =>
        LET depth == game.depth + game.last.passes - 1
            values == pass_values(game.board, game.player, depth)
            mine == ValueAt(game.board, game.player, depth, game.last.action)
        IN  \A k \in 1 .. Len(values) :
                IF game.player = PLAYER1 THEN values[k].value <= mine
                ELSE values[k].value >= mine

----------------------------------------------------------------------------
(* SpecAlphaBeta: one call alpha_beta(board, depth, -inf, inf, player,     *)
(* base_heuristic) on a board of MinimaxRows x MinimaxCols cells holding   *)
(* up to MaxPieces stacked pieces, with or without four in a row, at the   *)
(* depths 0 .. MaxDepth.                                                   *)

AlphaBetaBoards == UNION {Dropped(k) : k \in 0 .. MaxPieces}

InitAlphaBeta == InitMinimaxWith(AlphaBetaBoards, 0 .. MaxDepth, None)

\* value = alpha_beta(board, depth, -np.inf, np.inf, player, base_heuristic)
AlphaBetaCall ==
    /\ pc = "minimax"
    /\ game' = [game EXCEPT
                  !.last = [called |-> TRUE,
                            value |-> alpha_beta(game.board, game.depth,
                                                 -inf, inf, game.player),
                            leaf |-> alpha_beta_is_leaf(game.board, game.depth,
                                                        game.player)]]
    /\ pc' = "done"
    /\ MinimaxFrame

NextAlphaBeta == AlphaBetaCall

SpecAlphaBeta == InitAlphaBeta /\ [][NextAlphaBeta]_vars

\* the greatest and the least number of a set
MaxOf(S) == CHOOSE v \in S : \A w \in S : w <= v
MinOf(S) == CHOOSE v \in S : \A w \in S : w >= v

\* minimax without pruning, with the terminal test, the moves and the
\* heuristic of alpha_beta: max for PLAYER1, min for PLAYER2
RECURSIVE plain_minimax(_, _, _)
plain_minimax(board, depth, player) ==
    IF alpha_beta_is_leaf(board, depth, player) THEN base_heuristic(board)
    ELSE LET values == {plain_minimax(apply_player_action(board, action, player),
                                      depth - 1, _OTHER_PLAYER(player)) :
                        action \in Range(_get_legal_moves_minimax(board))}
         IN  IF player = PLAYER1 THEN MaxOf(values) ELSE MinOf(values)

\* C23: alpha_beta with the window (-inf, inf) returns the value of the
\* search without pruning.
C23_PruningKeepsValue ==
    game.last.called =>
        game.last.value = plain_minimax(game.board, game.depth, game.player)

\* a call at depth 3 on a board in play whose value is finite
C23_Witness ==
    /\ game.last.called
    /\ game.depth >= 3
    /\ ~game.last.leaf
    /\ game.last.value \notin {inf, -inf}
    /\ game.last.value # 0

\* the players that have four in a row on the board
Decided(board) == {p \in Players : connected_four(board, p)}

\* C24: on a board on which exactly one player has four in a row, alpha_beta
\* returns inf if that player is PLAYER1 and -inf if it is PLAYER2, and
\* tries no move of the board.
C24_DecidedIsLeaf ==
    (game.last.called /\ Cardinality(Decided(game.board)) = 1) =>
        /\ game.last.value = IF Decided(game.board) = {PLAYER1} THEN inf
                              ELSE -inf
        /\ game.last.leaf

\* C24, the value alone
C24_DecidedValue ==
    (game.last.called /\ Cardinality(Decided(game.board)) = 1) =>
        game.last.value = IF Decided(game.board) = {PLAYER1} THEN inf ELSE -inf

----------------------------------------------------------------------------
(* SpecExpand: expand_child called on any node of a tree, with any column. *)

InitExpand ==
    /\ arrays = <<initialize_game_state>>
    /\ \E player \in Players : nodes = <<NewNode(1, player)>>
    /\ pc = "expand"
    /\ reloc = [NoReloc EXCEPT !.tree = 1]
    /\ find = NoFind
    /\ mrg = NoMrg
    /\ st = NoSt
    /\ game = NoGame

\* node.expand_child(action)
ExpandChild ==
    /\ pc = "expand"
    /\ reloc.nreloc < MaxExpands
    /\ \E node \in 1 .. Len(nodes), action \in ColIdx :
          LET e == expand_child(Heap, node, action)
          IN  /\ arrays' = e.H.arrays
              /\ nodes' = e.H.nodes
              /\ reloc' = [reloc EXCEPT
                             !.nreloc = @ + 1,
                             !.last = [called |-> TRUE, node |-> node,
                                       action |-> action, H0 |-> Heap,
                                       res |-> e.res]]
    /\ UNCHANGED <<pc, find, mrg, st, game>>

NextExpand == ExpandChild

SpecExpand == InitExpand /\ [][NextExpand]_vars

\* C13: expand_child(action) on a node that has a child for the action
\* returns that child and changes nothing; otherwise it adds exactly one
\* node: player the opponent of the node's player, empty stats, no children,
\* parent the node, the root_board object of the node, registered under the
\* action behind the node's other children.  Nothing else changes.
C13_ExpandChildIdempotent ==
    reloc.last.called =>
        LET H0 == reloc.last.H0
            node == reloc.last.node
            action == reloc.last.action
            res == reloc.last.res
        IN  IF has_child(H0.nodes[node].children, action)
            THEN /\ res = get_child(H0.nodes[node].children, action)
                 /\ Heap = H0
            ELSE /\ Len(nodes) = Len(H0.nodes) + 1
                 /\ res = Len(nodes)
                 /\ nodes[res] = [stats |-> EmptyStats, children |-> <<>>,
                                  parent |-> node,
                                  player |-> _OTHER_PLAYER(H0.nodes[node].player),
                                  root_board |-> H0.nodes[node].root_board,
                                  is_end_state |-> "absent"]
                 /\ nodes[node] = [H0.nodes[node] EXCEPT !.children =
                                      Append(@, [move |-> action, node |-> res])]
                 /\ \A n \in 1 .. Len(H0.nodes) :
                        n # node => nodes[n] = H0.nodes[n]
                 /\ arrays = H0.arrays

\* a second expand_child for the same column of a node below the root
C13_Witness ==
    /\ reloc.last.called
    /\ reloc.last.H0.nodes[reloc.last.node].parent # None
    /\ has_child(reloc.last.H0.nodes[reloc.last.node].children,
                 reloc.last.action)
    /\ reloc.last.res # None

----------------------------------------------------------------------------
(* SpecStats: two stats blobs accumulated by update from two sequences of   *)
(* playout winners, the blob accumulated from the first sequence followed  *)
(* by the second, and merge_stats of the two.                              *)

InitStats ==
    /\ arrays = <<>>
    /\ nodes = <<>>
    /\ pc = "seq1"
    /\ \E logic \in Logics : st = [NoSt EXCEPT !.logic = logic]
    /\ find = NoFind
    /\ reloc = NoReloc
    /\ mrg = NoMrg
    /\ game = NoGame

StatsFrame == UNCHANGED <<arrays, nodes, find, reloc, mrg, game>>

\* the next winner of the first sequence
StatsUpdate1 ==
    /\ pc = "seq1"
    /\ st.n1 < MaxSeq
    /\ \E winner \in BoardPiece :
          st' = [st EXCEPT !.stats1 = update(st.logic, @, winner),
                           !.stats12 = update(st.logic, @, winner),
                           !.n1 = @ + 1,
                           !.count[winner] = @ + 1]
    /\ UNCHANGED pc
    /\ StatsFrame

\* the first sequence ends
StatsSecond ==
    /\ pc = "seq1"
    /\ pc' = "seq2"
    /\ UNCHANGED st
    /\ StatsFrame

\* the next winner of the second sequence
StatsUpdate2 ==
    /\ pc = "seq2"
    /\ st.n2 < MaxSeq
    /\ \E winner \in BoardPiece :
          st' = [st EXCEPT !.stats2 = update(st.logic, @, winner),
                           !.stats12 = update(st.logic, @, winner),
                           !.n2 = @ + 1,
                           !.count[winner] = @ + 1]
    /\ UNCHANGED pc
    /\ StatsFrame

\* merge_stats(stats1, stats2)
StatsMerge ==
    /\ pc = "seq2"
    /\ st' = [st EXCEPT !.merged = merge_stats(st.logic, st.stats1, st.stats2)]
    /\ pc' = "merged"
    /\ StatsFrame

NextStats == StatsUpdate1 \/ StatsSecond \/ StatsUpdate2 \/ StatsMerge

SpecStats == InitStats /\ [][NextStats]_vars

\* the counters of a policy, and the value of a counter of a blob: an empty
\* blob stands for the values update starts from
CounterKeys(logic) == IF logic = "UCB1" THEN {"w", "s", "draw"}
                      ELSE {"a", "b", "draw"}
Counter(logic, stats, key) ==
    IF stats # EmptyStats THEN stats[key]
    ELSE IF logic = "Beta" /\ key \in {"a", "b"} THEN 1 ELSE 0

\* C10: merge_stats of the blobs accumulated from seq1 and from seq2 equals
\* the blob accumulated from seq1 followed by seq2 in every counter, the
\* draw counter included.
C10_MergeStatsExact ==
    pc = "merged" =>
        \A key \in CounterKeys(st.logic) :
            Counter(st.logic, st.merged, key) = Counter(st.logic, st.stats12, key)

\* what merge_stats does keep: every counter but draw is the sum
C10_MergeStatsButDraw ==
    pc = "merged" =>
        /\ \A key \in CounterKeys(st.logic) \ {"draw"} :
              Counter(st.logic, st.merged, key)
                  = Counter(st.logic, st.stats12, key)
        /\ Counter(st.logic, st.merged, "draw")
               = Counter(st.logic, st.stats1, "draw")

\* the value of the blob accumulated from all winners so far, for `player`
ValueFor(player) == _action_choice_metric(st.logic, st.stats12, player)

\* the fraction x equals num / den
IsFraction(x, num, den) == x.num * den = num * x.den

\* C11: after N wins of player 1, M wins of player 2 and D draws went into a
\* fresh blob through UCB1.update, in any order, with N + M > 0, the action
\* choice metric for player 1 is N / (N + M), whatever D is.
C11_Player1WinRate ==
    (st.logic = "UCB1" /\ st.count[PLAYER1] + st.count[PLAYER2] > 0)
        => IsFraction(ValueFor(PLAYER1), st.count[PLAYER1],
                      st.count[PLAYER1] + st.count[PLAYER2])

\* wins of both players and a draw went into the blob
C11_Witness ==
    /\ st.logic = "UCB1"
    /\ \A winner \in BoardPiece : st.count[winner] > 0

\* C12: under the same conditions the value for player 2, the exploitation
\* term of select and the action choice metric, is M / (N + M); it is at
\* most 1 and the values of the two players sum to 1.
C12_Player2WinRate ==
    (st.logic = "UCB1" /\ st.count[PLAYER1] + st.count[PLAYER2] > 0)
        => /\ IsFraction(ValueFor(PLAYER2), st.count[PLAYER2],
                         st.count[PLAYER1] + st.count[PLAYER2])
           /\ ValueFor(PLAYER2).num <= ValueFor(PLAYER2).den
           /\ ValueFor(PLAYER1).num * ValueFor(PLAYER2).den
                  + ValueFor(PLAYER2).num * ValueFor(PLAYER1).den
                  = ValueFor(PLAYER1).den * ValueFor(PLAYER2).den

\* what the code computes for player 2: the draws count as its wins
C12_Player2CountsDraws ==
    (st.logic = "UCB1" /\ st.count[PLAYER1] + st.count[PLAYER2] > 0)
        => IsFraction(ValueFor(PLAYER2),
                      st.count[PLAYER2] + st.count[NO_PLAYER],
                      st.count[PLAYER1] + st.count[PLAYER2])

----------------------------------------------------------------------------
(* SpecMerge: two trees over equal root boards, each grown by its own MCTS  *)
(* iterations, and merge_trees of the two.                                 *)

InitMerge ==
    /\ arrays = <<initialize_game_state, initialize_game_state>>
    /\ nodes = <<NewNode(1, PLAYER1), NewNode(2, PLAYER1)>>
    /\ \E logic \in Logics :
          mrg = [NoMrg EXCEPT !.tree1 = 1, !.tree2 = 2, !.logic = logic]
    /\ pc = "grow1"
    /\ find = NoFind
    /\ reloc = NoReloc
    /\ st = NoSt
    /\ game = NoGame

MergeFrame == UNCHANGED <<find, reloc, st, game>>

\* one MCTS iteration on the tree that is growing
MergeIterate ==
    /\ pc \in {"grow1", "grow2"}
    /\ mrg.iters < MaxIters
    /\ \E r \in _monte_carlo_tree_search(
                    Heap, IF pc = "grow1" THEN mrg.tree1 ELSE mrg.tree2,
                    mrg.logic) :
          /\ arrays' = r.H.arrays
          /\ nodes' = r.H.nodes
          /\ pc' = IF r.err = "none" THEN pc ELSE r.err
    /\ mrg' = [mrg EXCEPT !.iters = @ + 1]
    /\ MergeFrame

\* the first tree is done, the second one grows
MergeSecond ==
    /\ pc = "grow1"
    /\ pc' = "grow2"
    /\ mrg' = [mrg EXCEPT !.iters = 0]
    /\ UNCHANGED <<arrays, nodes>>
    /\ MergeFrame

\* SearchTree.merge_trees(tree1, tree2, merge_stats)
MergeCall ==
    /\ pc = "grow2"
    /\ LET m == merge_trees(Heap, mrg.tree1, mrg.tree2, mrg.logic)
       IN  /\ arrays' = m.H.arrays
           /\ nodes' = m.H.nodes
           /\ pc' = IF m.raised THEN "raised" ELSE "merged"
           /\ mrg' = [mrg EXCEPT !.merged = m.res]
    /\ MergeFrame

NextMerge == MergeIterate \/ MergeSecond \/ MergeCall

SpecMerge == InitMerge /\ [][NextMerge]_vars

\* the action sequences that lead from node to the nodes below it, the empty
\* one included
RECURSIVE PathsOf(_, _)
PathsOf(N, node) ==
    {<<>>} \cup UNION {{<<c.move>> \o p : p \in PathsOf(N, c.node)} :
                       c \in Range(N[node].children)}

CommonPaths == PathsOf(nodes, mrg.tree1) \cap PathsOf(nodes, mrg.tree2)

StatsAt(tree, path) == nodes[NodeAt(nodes, tree, path)].stats

\* action is a child action of the node at path in tree `of`, and not of the
\* node at path in tree `other`
ExclusiveAt(of, other, path, action) ==
    /\ has_child(nodes[NodeAt(nodes, of, path)].children, action)
    /\ ~ has_child(nodes[NodeAt(nodes, other, path)].children, action)

\* C7: every node of a tree references the root_board object of its parent,
\* and so the whole tree shares one board object.
C7_SharedRootBoard ==
    \A n \in 1 .. Len(nodes) :
        nodes[n].parent # None
            => nodes[n].root_board = nodes[nodes[n].parent].root_board

\* C8: the action paths of the merged tree are exactly the union of the
\* action paths of the two input trees.
C8_MergedPathsAreUnion ==
    pc = "merged"
        => PathsOf(nodes, mrg.merged)
               = PathsOf(nodes, mrg.tree1) \cup PathsOf(nodes, mrg.tree2)

\* C9: in the merged tree the stats of every node present in both inputs,
\* the root first, are merge_stats of the two counterparts' stats; a child
\* that only one of the two counterparts has is a child of the merged node
\* with the same stats; every child action of either input root is a child
\* action of the merged root.
C9_MergedStats ==
    pc = "merged"
        => /\ StatsAt(mrg.merged, <<>>)
                  = merge_stats(mrg.logic, StatsAt(mrg.tree1, <<>>),
                                StatsAt(mrg.tree2, <<>>))
           /\ \A p \in CommonPaths :
                  /\ p \in PathsOf(nodes, mrg.merged)
                  /\ StatsAt(mrg.merged, p)
                         = merge_stats(mrg.logic, StatsAt(mrg.tree1, p),
                                       StatsAt(mrg.tree2, p))
                  /\ \A action \in ColIdx :
                        /\ ExclusiveAt(mrg.tree1, mrg.tree2, p, action)
                              => /\ p \o <<action>> \in PathsOf(nodes, mrg.merged)
                                 /\ StatsAt(mrg.merged, p \o <<action>>)
                                        = StatsAt(mrg.tree1, p \o <<action>>)
                        /\ ExclusiveAt(mrg.tree2, mrg.tree1, p, action)
                              => /\ p \o <<action>> \in PathsOf(nodes, mrg.merged)
                                 /\ StatsAt(mrg.merged, p \o <<action>>)
                                        = StatsAt(mrg.tree2, p \o <<action>>)
           /\ Range(child_keys(nodes[mrg.tree1].children))
                  \cup Range(child_keys(nodes[mrg.tree2].children))
                  = Range(child_keys(nodes[mrg.merged].children))

\* a merge of two trees that share a child of the root, below which each
\* tree has a child of its own
C9_Witness ==
    /\ pc = "merged"
    /\ \E p \in CommonPaths :
          /\ Len(p) >= 1
          /\ StatsAt(mrg.tree1, p) # EmptyStats
          /\ StatsAt(mrg.tree2, p) # EmptyStats
          /\ \E action \in ColIdx :
                /\ ExclusiveAt(mrg.tree1, mrg.tree2, p, action)
                /\ StatsAt(mrg.tree1, p \o <<action>>) # EmptyStats
          /\ \E action \in ColIdx :
                ExclusiveAt(mrg.tree2, mrg.tree1, p, action)

----------------------------------------------------------------------------
(* Spec: agent_vs_agent of profiling/play_agent_vs_agent.py, one game from  *)
(* the empty board.  One side is generate_move_mcts with its saved state,  *)
(* the other side is an agent that returns any legal column.               *)

Init ==
    /\ arrays = <<>>
    /\ nodes = <<>>
    /\ pc = "play"
    /\ \E agent \in Players, logic \in Logics, num_processes \in 1 .. MaxProcs :
          game = [NoGame EXCEPT
                    !.agent = agent,
                    !.cfg = [logic |-> logic, num_processes |-> num_processes,
                             iterations |-> Iterations]]
    /\ find = NoFind
    /\ reloc = NoReloc
    /\ mrg = NoMrg
    /\ st = NoSt

GameFrame == UNCHANGED <<find, reloc, mrg, st>>

\* the body of the driver's loop after gen_move returned action: the move is
\* applied and the end of the game is checked
Played(action) ==
    LET board == apply_player_action(game.board, action, game.player)
    IN  [board |-> board,
         pc |-> IF check_end_state(board, game.player) = "STILL_PLAYING"
                THEN "play" ELSE "over"]

\* the turn of the MCTS agent: gen_move(board.copy(), player,
\* saved_state[player], logic).  The objects that the returned tree does not
\* reach are garbage, the state keeps the tree alone.
AgentMove ==
    /\ pc = "play"
    /\ game.player = game.agent
    /\ LET H1 == [arrays |-> Append(arrays, game.board), nodes |-> nodes]
           board == Len(arrays) + 1
       IN  \E g \in generate_move_mcts(H1, board, game.player,
                                       game.saved_state, game.cfg) :
              IF g.err # "none"
              THEN /\ pc' = g.err
                   /\ arrays' = g.H.arrays
                   /\ nodes' = g.H.nodes
                   /\ game' = [game EXCEPT
                                 !.ncalls = @ + 1,
                                 !.last = [called |-> TRUE, returned |-> FALSE,
                                           board |-> game.board]]
              ELSE LET keep == pickle_copy(EmptyHeap, g.H, g.tree)
                       p == Played(g.action)
                   IN  /\ pc' = p.pc
                       /\ arrays' = keep.H.arrays
                       /\ nodes' = keep.H.nodes
                       /\ game' = [game EXCEPT
                                     !.board = p.board,
                                     !.player = _OTHER_PLAYER(@),
                                     !.saved_state = keep.res,
                                     !.ncalls = @ + 1,
                                     !.last = [called |-> TRUE,
                                               returned |-> TRUE,
                                               board |-> game.board,
                                               action |-> g.action,
                                               reused |-> game.saved_state # None,
                                               parent |-> g.H.nodes[g.tree].parent]]
    /\ GameFrame

\* the turn of the other agent: any legal column
OpponentMove ==
    /\ pc = "play"
    /\ game.player # game.agent
    /\ \E action \in Range(_get_legal_moves(game.board)) :
          LET p == Played(action)
          IN  /\ pc' = p.pc
              /\ game' = [game EXCEPT !.board = p.board,
                                      !.player = _OTHER_PLAYER(@)]
    /\ UNCHANGED <<arrays, nodes>>
    /\ GameFrame

Next == AgentMove \/ OpponentMove

Spec == Init /\ [][Next]_vars

----------------------------------------------------------------------------
(* SpecMove: generate_move_mcts taking over a game in its second half: the  *)
(* first call, without a tree, is on a position that StartMoves or more    *)
(* moves lead to, and every worker runs MaxIters iterations.               *)

\* the boards of S on which the game goes on after the move of `player`
StillPlaying(S, player) ==
    {b \in S : check_end_state(b, player) = "STILL_PLAYING"}

\* the positions k moves into a game that is not over, PLAYER1 moving first
RECURSIVE Positions(_)
Positions(k) ==
    IF k = 0 THEN {initialize_game_state}
    ELSE LET player == IF k % 2 = 1 THEN PLAYER1 ELSE PLAYER2
         IN  StillPlaying(BoardsAfter(Positions(k - 1), player, 1), player)

InitMove ==
    /\ arrays = <<>>
    /\ nodes = <<>>
    /\ pc = "play"
    /\ \E k \in StartMoves .. (Rows * Cols - 1), logic \in Logics,
          num_processes \in 1 .. MaxProcs :
          \E board \in Positions(k) :
             game = [NoGame EXCEPT
                       !.agent = IF k % 2 = 0 THEN PLAYER1 ELSE PLAYER2,
                       !.player = IF k % 2 = 0 THEN PLAYER1 ELSE PLAYER2,
                       !.board = board,
                       !.cfg = [logic |-> logic,
                                num_processes |-> num_processes,
                                iterations |-> MaxIters * num_processes]]
    /\ find = NoFind
    /\ reloc = NoReloc
    /\ mrg = NoMrg
    /\ st = NoSt

SpecMove == InitMove /\ [][Next]_vars

\* C3: in a game from the empty board in which the agent gets back its own
\* tree and the board after its move and the opponent's move, no call raises
\* the incompatibility error of _move_root, with one process and with
\* several.
C3_NeverIncompatible == pc # "incompatible"

\* a call with several processes that relocated the merged tree of the call
\* before and returned
C3_Witness ==
    /\ game.cfg.num_processes > 1
    /\ game.ncalls >= 2
    /\ game.last.called
    /\ game.last.returned
    /\ game.last.reused

\* every action path of the tree replays from the root board without a move
\* into a full column
ChildrenLegal(search_tree) ==
    \A path \in PathsOf(nodes, search_tree) :
        Replay(arrays[nodes[search_tree].root_board], path,
               nodes[search_tree].player).ok

\* what a call of generate_move_mcts on a board of a running game owes: it
\* returned, the column is legal on the board given, the root of the tree
\* has no parent and its board is the board given, the children of every
\* node are legal columns of the node's board
MoveLegal ==
    /\ game.last.returned
    /\ game.last.board[Rows - 1][game.last.action] = NO_PLAYER
    /\ game.last.parent = None
    /\ arrays[nodes[game.saved_state].root_board] = game.last.board
    /\ ChildrenLegal(game.saved_state)

\* C6: every call of generate_move_mcts on a board of a running game, the
\* first one and the ones with a reused tree, returns a legal column and a
\* tree whose root has no parent and holds the board given.
C6_MoveLegal == game.last.called => MoveLegal

\* the same for one process only
SequentialMoveLegal ==
    (game.last.called /\ game.cfg.num_processes = 1) => MoveLegal

\* a call with one process that returned with a reused tree
SequentialMoveWitness ==
    /\ game.last.called
    /\ game.cfg.num_processes = 1
    /\ game.last.returned
    /\ game.last.reused

----------------------------------------------------------------------------
(* SpecBoards: the games of SpecMove with a record of the board arrays the *)
(* caller passed to generate_move_mcts: what each one held when it was     *)
(* passed, what it holds now, and where it is in the heap as long as the   *)
(* kept tree refers to it (an array that the tree does not refer to is out *)
(* of reach of every later call).                                          *)

NoBoards == [passed |-> <<>>]

InitBoards ==
    /\ arrays = <<>>
    /\ nodes = <<>>
    /\ pc = "play"
    /\ \E k \in StartMoves .. (Rows * Cols - 1), logic \in Logics,
          num_processes \in 1 .. MaxProcs :
          \E board \in Positions(k) :
             game = [NoGame EXCEPT
                       !.agent = IF k % 2 = 0 THEN PLAYER1 ELSE PLAYER2,
                       !.player = IF k % 2 = 0 THEN PLAYER1 ELSE PLAYER2,
                       !.board = board,
                       !.cfg = [logic |-> logic,
                                num_processes |-> num_processes,
                                iterations |-> MaxIters * num_processes]]
    /\ find = NoBoards
    /\ reloc = NoReloc
    /\ mrg = NoMrg
    /\ st = NoSt

\* the record of the passed arrays after a call that left the heap H: the
\* array of this call is added, and every array still in the heap is read
PassedAfter(H, board) ==
    LET seen == Append(find.passed,
                       [was |-> game.board, now |-> game.board, id |-> board])
    IN  [i \in 1 .. Len(seen) |->
            IF seen[i].id = None THEN seen[i]
            ELSE [seen[i] EXCEPT !.now = H.arrays[seen[i].id]]]

\* the record once the caller keeps the tree `keep`, a copy of tree in H
\* without the objects that the tree does not reach
PassedKept(H, tree, keep, passed) ==
    [i \in 1 .. Len(passed) |->
        [passed[i] EXCEPT
           !.id = IF @ # None /\ H.nodes[tree].root_board = @
                  THEN keep.H.nodes[keep.res].root_board ELSE None]]

\* the turn of the MCTS agent, as AgentMove
BoardsAgentMove ==
    /\ pc = "play"
    /\ game.player = game.agent
    /\ LET H1 == [arrays |-> Append(arrays, game.board), nodes |-> nodes]
           board == Len(arrays) + 1
       IN  \E g \in generate_move_mcts(H1, board, game.player,
                                       game.saved_state, game.cfg) :
              IF g.err # "none"
              THEN /\ pc' = g.err
                   /\ arrays' = g.H.arrays
                   /\ nodes' = g.H.nodes
                   /\ game' = [game EXCEPT !.ncalls = @ + 1]
                   /\ find' = [passed |-> PassedAfter(g.H, board)]
              ELSE LET keep == pickle_copy(EmptyHeap, g.H, g.tree)
                       p == Played(g.action)
                   IN  /\ pc' = p.pc
                       /\ arrays' = keep.H.arrays
                       /\ nodes' = keep.H.nodes
                       /\ game' = [game EXCEPT
                                     !.board = p.board,
                                     !.player = _OTHER_PLAYER(@),
                                     !.saved_state = keep.res,
                                     !.ncalls = @ + 1]
                       /\ find' = [passed |->
                                     PassedKept(g.H, g.tree, keep,
                                                PassedAfter(g.H, board))]
    /\ UNCHANGED <<reloc, mrg, st>>

NextBoards == BoardsAgentMove \/ OpponentMove

SpecBoards == InitBoards /\ [][NextBoards]_vars

\* C30: every board array that the caller passed to generate_move_mcts, in
\* this call or an earlier one, holds what it held when it was passed.
C30_CallerBoardsUnchanged ==
    \A i \in 1 .. Len(find.passed) : find.passed[i].now = find.passed[i].was

----------------------------------------------------------------------------
(* SpecTimer: the loop `for _ in self.get_iter(): mcts(...)` of run in     *)
(* time-based mode without progress bar.  The clock is a tick counter that *)
(* goes on between any two steps; time.time() reads it.  runtime minus     *)
(* _exit_time_buffer is a number of ticks.                                 *)

\* the clock stops at this tick
MaxTime == 6

\* the largest runtime - _exit_time_buffer
MaxBudget == 3

NoTimer == [now |-> 0, t_ |-> 0, t |-> 0, late |-> 0]

InitTimer ==
    /\ arrays = <<>>
    /\ nodes = <<>>
    /\ pc = "call"
    /\ game = NoGame
    /\ find = NoFind
    /\ reloc = NoReloc
    /\ mrg = NoMrg
    /\ \E now \in 0 .. 1 : st = [NoTimer EXCEPT !.now = now]

TimerFrame == UNCHANGED <<arrays, nodes, game, find, reloc, mrg>>

\* the clock goes on
Tick ==
    /\ st.now < MaxTime
    /\ pc # "done"
    /\ st' = [st EXCEPT !.now = @ + 1]
    /\ UNCHANGED pc
    /\ TimerFrame

\* t_ = time.time(); t = t_ + self.runtime - self._exit_time_buffer
_t_iterator_begin ==
    /\ pc = "call"
    /\ \E budget \in 1 .. MaxBudget :
          st' = [st EXCEPT !.t_ = st.now, !.t = st.now + budget]
    /\ pc' = "while"
    /\ TimerFrame

\* while t_ < t
_t_iterator_test ==
    /\ pc = "while"
    /\ pc' = IF st.t_ < st.t THEN "read" ELSE "done"
    /\ UNCHANGED st
    /\ TimerFrame

\* t_ = time.time(); yield t_: the body of the for loop starts
_t_iterator_yield ==
    /\ pc = "read"
    /\ st' = [st EXCEPT !.t_ = st.now]
    /\ pc' = "iteration"
    /\ TimerFrame

\* mcts(search_tree, self.select, self.update) returns, and the for loop
\* resumes the generator
TimerIteration ==
    /\ pc = "iteration"
    /\ st' = [st EXCEPT !.late = IF st.now >= st.t THEN @ + 1 ELSE @]
    /\ pc' = "while"
    /\ TimerFrame

NextTimer ==
    \/ Tick
    \/ _t_iterator_begin
    \/ _t_iterator_test
    \/ _t_iterator_yield
    \/ TimerIteration

SpecTimer == InitTimer /\ [][NextTimer]_vars

\* C26: in time-based mode an iteration is started only if the most recent
\* clock reading taken before it is strictly before the deadline.
C26_StartsBeforeDeadline == pc = "iteration" => st.t_ < st.t

\* C26, the consequence: at most one iteration completes after the deadline.
C26_OneLateIteration == st.late <= 1

----------------------------------------------------------------------------
(* SpecParallel: the games of SpecMove with num_processes > 1 and the run   *)
(* of MCTSLogic taken step by step: the orchestrator puts the snapshots on *)
(* the input queue and takes the results from the output queue; every      *)
(* worker process polls the input queue, takes a snapshot, runs its        *)
(* iterations and puts the result.  The workers are started in the first   *)
(* run and live on between the runs.  An exception in a worker ends that   *)
(* process.  The scheduling is fair to every process.                      *)

\* the games of SpecParallel start after this many moves
ParStartMoves == 5

Workers == 1 .. game.cfg.num_processes

NoPar == [started |-> FALSE, wpc |-> <<>>, item |-> <<>>,
          q_in |-> <<>>, q_out |-> <<>>, tree |-> None, nput |-> 0,
          search_trees |-> <<>>, runs |-> 0]

InitParallel ==
    /\ arrays = <<>>
    /\ nodes = <<>>
    /\ pc = "play"
    /\ \E k \in ParStartMoves .. (Rows * Cols - 1), logic \in Logics,
          num_processes \in 2 .. MaxProcs :
          \E board \in Positions(k) :
             game = [NoGame EXCEPT
                       !.agent = IF k % 2 = 0 THEN PLAYER1 ELSE PLAYER2,
                       !.player = IF k % 2 = 0 THEN PLAYER1 ELSE PLAYER2,
                       !.board = board,
                       !.cfg = [logic |-> logic,
                                num_processes |-> num_processes,
                                iterations |-> MaxIters * num_processes]]
    /\ find = NoFind
    /\ reloc = NoReloc
    /\ mrg = NoPar
    /\ st = NoSt

ParFrame == UNCHANGED <<find, reloc, st>>

\* generate_move_mcts up to the first put of run: the tree is made or
\* relocated, and the first run starts the worker processes
ParCall ==
    /\ pc = "play"
    /\ game.player = game.agent
    /\ LET H1 == [arrays |-> Append(arrays, game.board), nodes |-> nodes]
           board == Len(arrays) + 1
           t == IF game.saved_state = None
                THEN LET n == SearchTree(H1, board, game.player)
                     IN  [H |-> n.H, res |-> n.res, raised |-> FALSE]
                ELSE _move_root(H1, game.saved_state, game.board)
       IN  /\ arrays' = t.H.arrays
           /\ nodes' = t.H.nodes
           /\ pc' = IF t.raised THEN "incompatible" ELSE "put"
           /\ mrg' = [mrg EXCEPT
                        !.started = TRUE,
                        !.wpc = IF mrg.started THEN @
                                ELSE [w \in Workers |-> "poll"],
                        !.item = IF mrg.started THEN @
                                 ELSE [w \in Workers |-> None],
                        !.tree = t.res, !.nput = 0, !.search_trees = <<>>]
    /\ UNCHANGED game
    /\ ParFrame

\* self._input_queue.put(dict(search_tree=search_tree, ...))
ParPut ==
    /\ pc = "put"
    /\ mrg' = [mrg EXCEPT
                 !.q_in = Append(@, pickle_copy(EmptyHeap, Heap, mrg.tree)),
                 !.nput = @ + 1]
    /\ pc' = IF mrg.nput + 1 = game.cfg.num_processes THEN "collect" ELSE "put"
    /\ UNCHANGED <<arrays, nodes, game>>
    /\ ParFrame

\* _run_process: `if not q_in.empty()` found an item
WorkerPollOf(w) ==
    /\ mrg.started
    /\ mrg.wpc[w] = "poll"
    /\ mrg.q_in # <<>>
    /\ mrg' = [mrg EXCEPT !.wpc[w] = "get"]
    /\ UNCHANGED <<arrays, nodes, pc, game>>
    /\ ParFrame

\* _run_process: kwargs = q_in.get(), which waits for an item
WorkerGetOf(w) ==
    /\ mrg.started
    /\ mrg.wpc[w] = "get"
    /\ mrg.q_in # <<>>
    /\ mrg' = [mrg EXCEPT !.wpc[w] = "run", !.item[w] = Head(mrg.q_in),
                          !.q_in = Tail(@)]
    /\ UNCHANGED <<arrays, nodes, pc, game>>
    /\ ParFrame

\* _run_process: res = f(**kwargs); q_out.put(res).  An exception of an
\* iteration leaves the loop of _run_process and ends the process.
WorkerRunOf(w) ==
    /\ mrg.started
    /\ mrg.wpc[w] = "run"
    /\ \E r \in iterate(mrg.item[w].H, mrg.item[w].res, game.cfg.logic,
                         get_iter(game.cfg)) :
          mrg' = IF r.err # "none"
                 THEN [mrg EXCEPT !.wpc[w] = "dead", !.item[w] = None]
                 ELSE [mrg EXCEPT
                         !.wpc[w] = "poll", !.item[w] = None,
                         !.q_out = Append(@, pickle_copy(EmptyHeap, r.H,
                                                         mrg.item[w].res))]
    /\ UNCHANGED <<arrays, nodes, pc, game>>
    /\ ParFrame

\* search_trees += [self._output_queue.get()], which waits for a result
ParGet ==
    /\ pc = "collect"
    /\ Len(mrg.search_trees) < game.cfg.num_processes
    /\ mrg.q_out # <<>>
    /\ LET c == pickle_copy(Heap, Head(mrg.q_out).H, Head(mrg.q_out).res)
       IN  /\ arrays' = c.H.arrays
           /\ nodes' = c.H.nodes
           /\ mrg' = [mrg EXCEPT !.search_trees = Append(@, c.res),
                                 !.q_out = Tail(@)]
    /\ UNCHANGED <<pc, game>>
    /\ ParFrame

\* the merge loop of run, the return of run, and generate_move_mcts from
\* there to its return; the driver applies the move
ParReturn ==
    /\ pc = "collect"
    /\ Len(mrg.search_trees) = game.cfg.num_processes
    /\ LET m == merge_results(Heap, mrg.search_trees[1], mrg.search_trees, 2,
                              game.cfg.logic)
           c == choose_action(game.cfg.logic, m.H, m.res, game.player)
       IN  IF m.raised \/ c.err # "none"
           THEN /\ pc' = IF m.raised THEN "merge: ValueError" ELSE c.err
                /\ UNCHANGED <<arrays, nodes, game>>
           ELSE LET keep == pickle_copy(EmptyHeap, m.H, m.res)
                    p == Played(c.action)
                IN  /\ pc' = p.pc
                    /\ arrays' = keep.H.arrays
                    /\ nodes' = keep.H.nodes
                    /\ game' = [game EXCEPT
                                  !.board = p.board,
                                  !.player = _OTHER_PLAYER(@),
                                  !.saved_state = keep.res,
                                  !.ncalls = @ + 1]
    /\ mrg' = [mrg EXCEPT !.tree = None, !.search_trees = <<>>,
                          !.runs = @ + 1]
    /\ ParFrame

\* the turn of the other agent: any legal column
ParOpponentMove ==
    /\ pc = "play"
    /\ game.player # game.agent
    /\ \E action \in Range(_get_legal_moves(game.board)) :
          LET p == Played(action)
          IN  /\ pc' = p.pc
              /\ game' = [game EXCEPT !.board = p.board,
                                      !.player = _OTHER_PLAYER(@)]
    /\ UNCHANGED <<arrays, nodes, mrg>>
    /\ ParFrame

WorkerPoll == \E w \in Workers : WorkerPollOf(w)

WorkerGet == \E w \in Workers : WorkerGetOf(w)

WorkerRun == \E w \in Workers : WorkerRunOf(w)

NextParallel ==
    \/ ParCall
    \/ ParPut
    \/ WorkerPoll
    \/ WorkerGet
    \/ WorkerRun
    \/ ParGet
    \/ ParReturn
    \/ ParOpponentMove

\* A game is finite and no process can step forever, so that fairness to
\* every process is the same as never stopping while a process can step.
SpecParallel == InitParallel /\ [][NextParallel]_vars /\ WF_vars(NextParallel)

\* the orchestrator waits in _output_queue.get() and no result can arrive:
\* the input queue is empty and no worker holds a snapshot
Blocked ==
    /\ pc = "collect"
    /\ Len(mrg.search_trees) < game.cfg.num_processes
    /\ mrg.q_out = <<>>
    /\ mrg.q_in = <<>>
    /\ \A w \in Workers : mrg.wpc[w] # "run"

AnyWorkerDead == \E w \in Workers : mrg.started /\ mrg.wpc[w] = "dead"

\* C25: a run of MCTSLogic with N > 1 processes never blocks forever: the
\* orchestrator is never left waiting for a result that no worker will
\* deliver (in such a state no process can step, so it has no end).
C25_RunNeverBlocks == ~Blocked

\* the orchestrator holds the N result trees and is about to merge them
ReadyToMerge ==
    pc = "collect" /\ Len(mrg.search_trees) = game.cfg.num_processes

\* the tree that run makes of the results it holds
MergedResults ==
    merge_results(Heap, mrg.search_trees[1], mrg.search_trees, 2,
                  game.cfg.logic)

\* C27: a node marked is_end_state in an input tree of merge_trees is
\* marked in the merged tree too, wherever the merged tree has a node at the
\* same action path.
C27_MergeKeepsEndMarks ==
    ReadyToMerge /\ ~MergedResults.raised =>
        \A i \in 1 .. Len(mrg.search_trees) :
            \A path \in PathsOf(nodes, mrg.search_trees[i]) :
                LET old == NodeAt(nodes, mrg.search_trees[i], path)
                    new == NodeAt(MergedResults.H.nodes, MergedResults.res, path)
                IN  nodes[old].is_end_state = "True" /\ new # None
                        => MergedResults.H.nodes[new].is_end_state = "True"

\* the samples counted in a stats blob; none in an empty one
SamplesIn(logic, stats) ==
    IF stats = EmptyStats THEN 0 ELSE samples(logic, stats)

\* C28: with UCB1 the root of the merged tree counts the samples the root
\* had when the run started plus the iterations of the N workers.
C28_MergedRootCount ==
    ReadyToMerge /\ ~MergedResults.raised /\ game.cfg.logic = "UCB1" =>
        SamplesIn("UCB1", MergedResults.H.nodes[MergedResults.res].stats)
            = SamplesIn("UCB1", nodes[mrg.tree].stats)
                + game.cfg.num_processes * get_iter(game.cfg)

\* C28 for a fresh tree: the merged root counts the iterations of the N
\* workers.
C28_FreshRootCount ==
    ReadyToMerge /\ ~MergedResults.raised /\ game.cfg.logic = "UCB1"
                 /\ nodes[mrg.tree].stats = EmptyStats =>
        SamplesIn("UCB1", MergedResults.H.nodes[MergedResults.res].stats)
            = game.cfg.num_processes * get_iter(game.cfg)

\* C25, the counting: a run puts N snapshots, merges N results, and at its
\* return both queues are empty; no result waits outside of a run unless a
\* worker is still to deliver.
C25_QueueCounts ==
    /\ pc = "collect" =>
          /\ mrg.nput = game.cfg.num_processes
          /\ Len(mrg.search_trees) <= game.cfg.num_processes
          /\ Len(mrg.q_in) + Len(mrg.q_out) + Len(mrg.search_trees)
                + Cardinality({w \in Workers : mrg.wpc[w] \in {"run", "dead"}})
               >= game.cfg.num_processes
    /\ pc \in {"play", "over"} => mrg.q_in = <<>> /\ mrg.q_out = <<>>
    /\ pc \in {"play", "over"} /\ mrg.started =>
          \A w \in Workers : mrg.wpc[w] \in {"poll", "get"}

----------------------------------------------------------------------------
(* SpecSelect: MCTS iterations, step by step, on a fresh tree whose root is *)
(* a position of the second half of a game, so that the tree reaches the   *)
(* end of the game.  last records the heap before the iteration, the heap  *)
(* and the result of _select_and_expand, and the winner of the playout.    *)

InitSelect ==
    /\ \E k \in StartMoves .. (Rows * Cols - 1), logic \in Logics :
          \E board \in Positions(k) :
             /\ arrays = <<board>>
             /\ nodes = <<NewNode(1, IF k % 2 = 0 THEN PLAYER1 ELSE PLAYER2)>>
             /\ reloc = [NoReloc EXCEPT !.tree = 1, !.logic = logic]
    /\ pc = "run"
    /\ find = NoFind
    /\ mrg = NoMrg
    /\ st = NoSt
    /\ game = NoGame

\* _monte_carlo_tree_search(tree, select, update)
SelectIterate ==
    /\ pc = "run"
    /\ reloc.iters < MaxIters
    /\ \E sel \in _select_and_expand(Heap, reloc.tree) :
          IF sel.err # "none"
          THEN /\ arrays' = sel.H.arrays
               /\ nodes' = sel.H.nodes
               /\ pc' = sel.err
               /\ reloc' = [reloc EXCEPT !.iters = @ + 1, !.last = NoCall]
          ELSE \E winner \in _simulate(sel.board, sel.H.nodes[sel.node].player) :
                  LET H2 == _propagate_up(sel.H, sel.node, winner, reloc.logic)
                  IN  /\ arrays' = H2.arrays
                      /\ nodes' = H2.nodes
                      /\ pc' = "run"
                      /\ reloc' = [reloc EXCEPT
                                     !.iters = @ + 1,
                                     !.last = [called |-> TRUE, H0 |-> Heap,
                                               Hsel |-> sel.H,
                                               node |-> sel.node,
                                               board |-> sel.board,
                                               winner |-> winner]]
    /\ RelocFrame

NextSelect == SelectIterate

SpecSelect == InitSelect /\ [][NextSelect]_vars

\* the actions that lead from the root of its tree to the node
RECURSIVE PathTo(_, _)
PathTo(N, node) ==
    IF N[node].parent = None THEN <<>>
    ELSE LET siblings == N[N[node].parent].children
             k == CHOOSE i \in 1 .. Len(siblings) : siblings[i].node = node
         IN  Append(PathTo(N, N[node].parent), siblings[k].move)

\* the root of the tree of the node
RECURSIVE RootOf(_, _)
RootOf(N, node) ==
    IF N[node].parent = None THEN node ELSE RootOf(N, N[node].parent)

\* the board of the node: the root board with the actions to the node played
BoardOf(H, node) ==
    Replay(H.arrays[H.nodes[RootOf(H.nodes, node)].root_board],
           PathTo(H.nodes, node),
           H.nodes[RootOf(H.nodes, node)].player).board

\* C15: a node marked is_end_state never gets a child; a descent that
\* reaches a marked node creates nothing and returns that node with its
\* board; a mark that was computed is never changed.
C15_EndStateIsLeaf ==
    /\ \A n \in 1 .. Len(nodes) :
           nodes[n].is_end_state = "True" => nodes[n].children = <<>>
    /\ reloc.last.called =>
          LET H0 == reloc.last.H0
              node == reloc.last.node
          IN  /\ \A n \in 1 .. Len(H0.nodes) :
                     H0.nodes[n].is_end_state # "absent"
                         => nodes[n].is_end_state = H0.nodes[n].is_end_state
              /\ (node <= Len(H0.nodes)
                     /\ H0.nodes[node].is_end_state = "True")
                    => /\ reloc.last.Hsel = H0
                       /\ reloc.last.board = BoardOf(H0, node)
              /\ \A n \in 1 .. Len(H0.nodes) :
                     H0.nodes[n].is_end_state = "True"
                         => n \notin {nodes[m].parent :
                                         m \in (Len(H0.nodes) + 1) .. Len(nodes)}

\* an iteration whose descent ended in a node that was marked before
C15_Witness ==
    /\ reloc.last.called
    /\ reloc.last.node <= Len(reloc.last.H0.nodes)
    /\ reloc.last.H0.nodes[reloc.last.node].is_end_state = "True"

C20_WitnessOpen ==
    /\ reloc.last.called
    /\ reloc.last.node > Len(reloc.last.H0.nodes)
    /\ reloc.last.Hsel.nodes[reloc.last.node].is_end_state = "False"

----------------------------------------------------------------------------
(* SpecSimulate: one call _simulate(board, player), pass by pass of its    *)
(* loop, for every board of pieces stacked from the bottom, with or        *)
(* without four in a row, and either player.                               *)

InitSimulate ==
    /\ \E board \in AnyPiecesAfter({initialize_game_state}, Rows * Cols),
          player \in Players :
          /\ arrays = <<board>>
          /\ game = [board0 |-> board, player0 |-> player, f |-> NoCall,
                     moves |-> 0, value |-> NO_PLAYER]
    /\ nodes = <<>>
    /\ pc = "call"
    /\ find = NoFind
    /\ reloc = NoReloc
    /\ mrg = NoMrg
    /\ st = NoSt

SimulateFrame == UNCHANGED <<nodes, find, reloc, mrg, st>>

\* the call _simulate(board, player) up to the head of the loop
SimulateCall ==
    /\ pc = "call"
    /\ LET b == _simulate_begin(Heap, 1, game.player0)
       IN  /\ arrays' = b.H.arrays
           /\ game' = [game EXCEPT !.f = [board |-> b.board,
                                          fill_level |-> b.fill_level,
                                          player |-> b.player]]
    /\ pc' = "loop"
    /\ SimulateFrame

\* one pass of the loop
SimulatePass ==
    /\ pc = "loop"
    /\ \E r \in _simulate_pass(Heap, game.f) :
          /\ arrays' = r.H.arrays
          /\ game' = [game EXCEPT !.f = r.f,
                                  !.moves = IF r.returned THEN @ ELSE @ + 1,
                                  !.value = r.value]
          /\ pc' = IF r.returned THEN "done" ELSE "loop"
    /\ SimulateFrame

NextSimulate == SimulateCall \/ SimulatePass

SpecSimulate == InitSimulate /\ [][NextSimulate]_vars /\ WF_vars(NextSimulate)

\* what holds in every state of a playout
SimulateSafe ==
    LET empty0 == Cardinality({c \in RowIdx \X ColIdx :
                                  game.board0[c[1]][c[2]] = NO_PLAYER})
        last0 == _OTHER_PLAYER(game.player0)
    IN  /\ arrays[1] = game.board0
        /\ game.moves <= empty0
        /\ pc = "done" =>
              LET board == arrays[game.f.board]
              IN  /\ game.value \in _simulate(game.board0, game.player0)
                  /\ game.value \in Players =>
                        /\ connected_four(board, game.value)
                        /\ game.value = game.f.player
                        /\ game.moves = 0 => game.value = last0
                  /\ connected_four(game.board0, last0) =>
                        game.moves = 0 /\ game.value = last0
                  /\ game.value = NO_PLAYER =>
                        /\ _get_legal_moves(board) = <<>>
                        /\ ~connected_four(board,
                                           _OTHER_PLAYER(game.f.player))

\* C22: every playout of _simulate ends, after at most as many moves as the
\* board has empty cells; a player is returned only if that player has four
\* in a row on the board played to (with no move played when the player who
\* moved last has four in a row already), NO_PLAYER only when no column has
\* room and the last mover has no four in a row; the board passed in keeps
\* its contents.
C22_SimulateTerminates == [](SimulateSafe) /\ <>(pc = "done")

\* a playout that filled the last empty cells and ended without a winner
C22_Witness ==
    /\ pc = "done"
    /\ game.value = NO_PLAYER
    /\ game.moves >= 2

\* a playout that ended with a win after moves were played
C22_WitnessWin ==
    /\ pc = "done"
    /\ game.value \in Players
    /\ game.moves >= 2

----------------------------------------------------------------------------
(* SpecPropagate: the iterations of SpecSelect, recorded step by step, on  *)
(* the trees of SpecReloc, relocations by _move_root included.             *)

NextPropagate == SelectIterate \/ RelocMoveRoot

SpecPropagate == InitReloc /\ [][NextPropagate]_vars

\* the last step was an iteration (and not a relocation)
LastIsIteration == reloc.last.called /\ "winner" \in DOMAIN reloc.last

\* the node and the nodes above it on the parent chain
RECURSIVE Chain(_, _)
Chain(N, node) ==
    IF node = None THEN {} ELSE {node} \cup Chain(N, N[node].parent)

\* C21: _propagate_up(node, winner, update) replaces the stats of each node
\* on the parent chain from the node to the root inclusive by one update of
\* them, and leaves every other node as it was: siblings, descendants and
\* the former ancestors above a relocated root.
C21_PropagateTouchesPath ==
    LastIsIteration =>
        LET N1 == reloc.last.Hsel.nodes
            chain == Chain(N1, reloc.last.node)
        IN  /\ arrays = reloc.last.Hsel.arrays
            /\ Len(nodes) = Len(N1)
            /\ reloc.tree \in chain
            /\ \A n \in 1 .. Len(N1) :
                   nodes[n] =
                       IF n \in chain
                       THEN [N1[n] EXCEPT
                               !.stats = update(reloc.logic, @,
                                                reloc.last.winner)]
                       ELSE N1[n]

\* an iteration on a relocated tree: the former root holds samples, is not
\* on the chain, and the chain has more than one node
C21_Witness ==
    /\ LastIsIteration
    /\ reloc.tree # 1
    /\ nodes[1].stats # EmptyStats
    /\ reloc.last.node # reloc.tree
    /\ \E n \in 1 .. Len(nodes) :
          /\ nodes[n].parent = reloc.tree
          /\ n # reloc.last.node
          /\ nodes[n].stats # EmptyStats

\* C16: no descent of _select_and_expand ends in an exception, in a fresh
\* tree, a relocated tree, or a merged tree reused on the next turn: it never
\* takes max() over no children and never plays into a full column.
C16_SelectionNeverRaises == pc \notin {"ValueError", "KeyError"}

----------------------------------------------------------------------------
(* SpecConserve: the iterations and root relocations of SpecReloc on the   *)
(* late positions of a game, where the iterations reach won and full       *)
(* boards.                                                                 *)

InitConserve ==
    /\ \E k \in ParStartMoves .. (Rows * Cols - 1) :
          \E b \in Positions(k) :
             /\ arrays = <<b>>
             /\ nodes = <<NewNode(1, IF k % 2 = 0 THEN PLAYER1 ELSE PLAYER2)>>
    /\ \E logic \in Logics : reloc = [NoReloc EXCEPT !.tree = 1, !.logic = logic]
    /\ pc = "run"
    /\ find = NoFind
    /\ mrg = NoMrg
    /\ st = NoSt
    /\ game = NoGame

NextConserve == RelocIterate \/ RelocMoveRoot

SpecConserve == InitConserve /\ [][NextConserve]_vars

\* the nodes of the tree below the node, the node included
RECURSIVE NodesBelow(_, _)
NodesBelow(N, node) ==
    {node} \cup UNION {NodesBelow(N, c.node) : c \in Range(N[node].children)}

\* the samples counted in the first k children
RECURSIVE ChildSamples(_, _, _, _)
ChildSamples(N, logic, children, k) ==
    IF k = 0 THEN 0
    ELSE ChildSamples(N, logic, children, k - 1)
            + SamplesIn(logic, N[children[k].node].stats)

\* the samples of the node that are not samples of one of its children
OwnSamples(N, logic, node) ==
    SamplesIn(logic, N[node].stats)
        - ChildSamples(N, logic, N[node].children, Len(N[node].children))

\* C29: with UCB1, in a tree grown by sequential iterations and root
\* relocations, every node with stats has w + draw <= s; every node not
\* marked end state has s = (sum of its children's s) + e, with e = 1 below
\* the root, e = 0 at the root of a fresh tree and e in {0, 1} at a relocated
\* root; a fresh tree has root s = n after n iterations.
C29_SampleConservation ==
    reloc.logic = "UCB1" =>
        /\ \A n \in NodesBelow(nodes, reloc.tree) :
              /\ nodes[n].stats # EmptyStats
                    => nodes[n].stats.w + nodes[n].stats.draw <= nodes[n].stats.s
              /\ nodes[n].is_end_state # "True"
                    => IF n # reloc.tree
                       THEN OwnSamples(nodes, "UCB1", n) = 1
                       ELSE IF reloc.nreloc = 0
                       THEN OwnSamples(nodes, "UCB1", n) = 0
                       ELSE OwnSamples(nodes, "UCB1", n) \in {0, 1}
        /\ pc = "run" /\ reloc.nreloc = 0
              => SamplesIn("UCB1", nodes[reloc.tree].stats) = reloc.iters

\* a relocated root that was an iteration target and has been sampled
\* through since; and a node below it
C29_Witness ==
    /\ reloc.logic = "UCB1"
    /\ reloc.nreloc > 0
    /\ OwnSamples(nodes, "UCB1", reloc.tree) = 1
    /\ nodes[reloc.tree].children # <<>>

\* a node marked end state that was the target of two iterations, below a
\* node that is not marked
C29_WitnessEnd ==
    /\ reloc.logic = "UCB1"
    /\ \E n \in NodesBelow(nodes, reloc.tree) :
          /\ nodes[n].is_end_state = "True"
          /\ nodes[n].stats.s >= 2
          /\ nodes[n].parent # None

====
